---- MODULE Spec2Model ----
(***************************************************************************)
(* JailedThreeJS: the Cell (DOM <-> scene-graph synchronisation), the      *)
(* painter (artist.js) and the interpolation engine (Train.js).            *)
(*                                                                         *)
(* Part 1 models src/src/module/cell.js: the DOM subtree of one <cell>,    *)
(* the MutationObserver record queue, ScanElement, _syncConvictIdentity    *)
(* and removeConvict.  Part 2 models src/src/module/artist.js (second      *)
(* version in the file) and animateLerp of src/src/module/Train.js: the    *)
(* style sheet, the paint passes, exchange_rule and the requestAnimation-  *)
(* Frame queue.  Numbers are kept in units of one quarter (Q).             *)
(***************************************************************************)
EXTENDS Integers, Sequences, FiniteSets, TLC

\* ------------------------------------------------------------------ bounds
\* Tracked nodes ever created (new Ctor() in ConvertDomToObject).
MaxNodes == 5
\* DOM operations the page script performs in one run.
MaxOps == 3
\* Mutation records waiting for the observer callback.
MaxPending == 3

\* ---------------------------------------------------------------- universe
\* The <cell> element itself (this.cellElm).
CellElm == "cell"
\* Elements the page script moves around: two <mesh> and one <div>.
Elems == {"m1", "m2", "div"}
TagOf(e) == IF e = "div" THEN "DIV" ELSE "MESH"
\* Keys of getClassMap() that the model's tags can hit.
ClassMapKeys == {"MESH"}
Ids == {"a", "b"}
Classes == {"k"}

\* ------------------------------------------------- partial maps (Map, WeakMap)
EmptyMap == [x \in {} |-> 0]
MapSet(f, k, v) == [x \in (DOMAIN f) \cup {k} |-> IF x = k THEN v ELSE f[x]]
MapDel(f, k) == [x \in (DOMAIN f) \ {k} |-> f[x]]
SeqRange(s) == {s[i] : i \in 1..Len(s)}
SeqWithout(s, x) == SelectSeq(s, LAMBDA y : y # x)
\* Set.prototype.add: a JavaScript Set keeps insertion order.
SetAdd(s, x) == IF x \in SeqRange(s) THEN s ELSE Append(s, x)

VARIABLES
  dom,               \* the document: kids[p] (children in document order),
                     \* id[e], cls[e], style[e] (inline declarations),
                     \* handler[e] (an on* attribute is present) and
                     \* convict (the elm.convict property)
  obj,               \* the Object3D instances: userData.domEl / domId /
                     \* classList / extraParams, name, children, transition,
                     \* layer3 (layers.enable(3)), props (the property tree)
  scene,             \* loadedScene.children
  allConvictsByDom,  \* cell._allConvictsByDom (WeakMap elm -> convict)
  convictsById,      \* cell._convictsById (Map id -> convict)
  convictsByClass,   \* cell._convictsByClass (Map class -> Set of convicts)
  namedConvicts,     \* cell.namedConvicts (a Set, in insertion order)
  classyConvicts,    \* cell.classyConvicts (a Set, in insertion order)
  pending,           \* mutation records queued for _styleObserver
  opsLeft,           \* script operations still allowed (bound)
  lastRec,           \* history: the last record or call that was handled
  destroyLog,        \* history: convicts destroyed by the last handler run
  lastBatch,         \* history: the records and the DOM the script left when
                     \* the observer callback last started
  sheet,             \* document.styleSheets: the rules in document order
  raf,               \* callbacks registered with requestAnimationFrame
  now,               \* the frame clock (performance.now())
  pendingStyleRepaint, \* cell._pendingStyleRepaint
  lastCast,          \* cell._last_cast_caught (zero or one convict)
  events,            \* history: TransitionFinished events dispatched
  escaped,           \* history: an exception left the last handler run
  warned,            \* history: failures caught and logged (console.warn)
  errored,           \* history: errors logged with console.error
  lastPaint,         \* history: the last paint pass the script triggered
  train,             \* Train.js: lerps (animateLerp calls so far), runs (the
                     \* KeyFrameAnimationLerp calls and where each stands)
                     \* and calls (history: onUpdate / onComplete calls)
  styleCache,        \* styleCache.js and utils.js: version
                     \* (globalStyleCacheVersion), keyframes and assetRules
                     \* (the @-rules of the document), AllKeyFramesMap,
                     \* keyframesCacheVersion, assetMap, assetCacheVersion
                     \* (gatherAssetRules._cacheVersion), loads (the
                     \* loadAsset calls so far) and the histories notified,
                     \* scans, failed, lastGet and lastSettle
  loop               \* the frame loop and the teardown: running (_running),
                     \* connected (observers and listeners attached),
                     \* animScheduled (requestAnimationFrame(this._anim) is
                     \* waiting), updateFunds and the history lateWork

cellVars == <<dom, obj, scene, allConvictsByDom, convictsById, convictsByClass,
              namedConvicts, classyConvicts, pending, opsLeft, lastRec,
              destroyLog, lastBatch, sheet, raf, now, pendingStyleRepaint,
              lastCast, events, escaped, warned, errored,
              lastPaint, train, styleCache, loop>>

\* The state as one record, for the operators that model the methods.
Cur ==
  [dom |-> dom, obj |-> obj, scene |-> scene,
   allConvictsByDom |-> allConvictsByDom, convictsById |-> convictsById,
   convictsByClass |-> convictsByClass, namedConvicts |-> namedConvicts,
   classyConvicts |-> classyConvicts, pending |-> pending,
   lastRec |-> lastRec, destroyLog |-> destroyLog,
   sheet |-> sheet, raf |-> raf, now |-> now,
   pendingStyleRepaint |-> pendingStyleRepaint, lastCast |-> lastCast,
   events |-> events, escaped |-> escaped, warned |-> warned,
   errored |-> errored,
   lastPaint |-> lastPaint, train |-> train, styleCache |-> styleCache,
   loop |-> loop,
   exc |-> FALSE]

Install(S) ==
  /\ dom' = S.dom
  /\ obj' = S.obj
  /\ scene' = S.scene
  /\ allConvictsByDom' = S.allConvictsByDom
  /\ convictsById' = S.convictsById
  /\ convictsByClass' = S.convictsByClass
  /\ namedConvicts' = S.namedConvicts
  /\ classyConvicts' = S.classyConvicts
  /\ pending' = S.pending
  /\ lastRec' = S.lastRec
  /\ destroyLog' = S.destroyLog
  /\ sheet' = S.sheet
  /\ raf' = S.raf
  /\ now' = S.now
  /\ pendingStyleRepaint' = S.pendingStyleRepaint
  /\ lastCast' = S.lastCast
  /\ events' = S.events
  /\ escaped' = (S.escaped \/ S.exc)
  /\ warned' = S.warned
  /\ errored' = S.errored
  /\ lastPaint' = S.lastPaint
  /\ train' = S.train
  /\ styleCache' = S.styleCache
  /\ loop' = S.loop

\* ------------------------------------------------------------------- DOM
\* elm.parentElement, as a set with zero or one member.
ParentSet(S, e) == {p \in DOMAIN S.dom.kids : e \in SeqRange(S.dom.kids[p])}

RECURSIVE InCell(_, _)
\* Whether element p lies in the subtree the observer watches (cellElm,
\* subtree: true).
InCell(S, p) ==
  IF p = CellElm THEN TRUE
  ELSE \E q \in ParentSet(S, p) : InCell(S, q)

RECURSIVE Descendants(_, _)
Descendants(S, e) ==
  SeqRange(S.dom.kids[e]) \cup
  UNION {Descendants(S, c) : c \in SeqRange(S.dom.kids[e])}

Rec(kind, e, attr) == [kind |-> kind, node |-> e, attr |-> attr]

\* Element.remove(): detach e from its parent; the observer gets a childList
\* record when the parent is inside the observed subtree.
DomRemove(S, e) ==
  IF ParentSet(S, e) = {} THEN S
  ELSE LET p == CHOOSE q \in ParentSet(S, e) : TRUE
           seen == InCell(S, p)
       IN [S EXCEPT !.dom.kids[p] = SeqWithout(@, e),
                    !.pending = IF seen THEN Append(@, Rec("removed", e, ""))
                                ELSE @]

\* parent.appendChild(e): e leaves its old parent first.
DomAppend(S, e, p) ==
  LET S1 == DomRemove(S, e)
      seen == InCell(S1, p)
  IN [S1 EXCEPT !.dom.kids[p] = Append(@, e),
                !.pending = IF seen THEN Append(@, Rec("added", e, ""))
                            ELSE @]

\* ------------------------------------------------------- property values
\* A number x of the page, in the model's unit of one quarter.
Q(x) == 4 * x
\* Parsed values: an array of numbers, a number, or a string (v holds the
\* numbers, s the text).
Arr(v) == [t |-> "arr", v |-> v, s |-> ""]
Num(v) == [t |-> "num", v |-> <<v>>, s |-> ""]
Str(v) == [t |-> "str", v |-> <<>>, s |-> v]
\* undefined
Undef == [t |-> "undef", v |-> <<>>, s |-> ""]

\* The property tree of a new Mesh, as far as the model's rules reach.
NewProps ==
  [k \in {"position", "material-color", "renderOrder", "material-name"} |->
     CASE k = "position" -> Arr(<<0, 0, 0>>)
       [] k = "material-color" -> Arr(<<Q(1), Q(1), Q(1)>>)
       [] k = "material-name" -> Str("")
       [] OTHER -> Num(0)]

\* object.transition: null, or a descriptor with duration and timing.fun;
\* zero or one record.
NoTransition == <<>>
\* object.animation: undefined, or the descriptor {name, duration,
\* iteration: {count}} the page assigned (count: nothing, or a number).
NoAnimation == <<>>
Animation(name, duration, count) ==
  <<[name |-> name, duration |-> duration, count |-> count]>>
Transition(d, fun) ==
  <<[duration |-> d, timing |-> [fun |-> fun], prim |-> FALSE]>>
\* object.transition holds a primitive (the number or text a `--transition`
\* declaration was parsed to): it has no duration and no timing.
PrimitiveTransition ==
  <<[duration |-> 0, timing |-> [fun |-> ""], prim |-> TRUE]>>

\* --------------------------------------------------------------- cell.js
\* _removeClassIndex(convict, className)
RemoveClassIndex(byClass, n, c) ==
  IF c \notin DOMAIN byClass THEN byClass
  ELSE LET bucket == byClass[c] \ {n}
       IN IF bucket = {} THEN MapDel(byClass, c)
          ELSE MapSet(byClass, c, bucket)

RECURSIVE RemoveClasses(_, _, _)
\* for (const cls of classes) this._removeClassIndex(convict, cls)
RemoveClasses(byClass, n, cs) ==
  IF cs = {} THEN byClass
  ELSE LET c == CHOOSE x \in cs : TRUE
       IN RemoveClasses(RemoveClassIndex(byClass, n, c), n, cs \ {c})

\* bucket.add(convict), creating the bucket when it is missing
AddClassIndex(byClass, n, c) ==
  MapSet(byClass, c, (IF c \in DOMAIN byClass THEN byClass[c] ELSE {}) \cup {n})

RECURSIVE AddClasses(_, _, _)
AddClasses(byClass, n, cs) ==
  IF cs = {} THEN byClass
  ELSE LET c == CHOOSE x \in cs : TRUE
       IN AddClasses(AddClassIndex(byClass, n, c), n, cs \ {c})

\* The identity index after the stale-entry step of _syncConvictIdentity.
DropPrevId(byId, n, prevId) ==
  IF prevId # "" /\ prevId \in DOMAIN byId /\ byId[prevId] = n
  THEN MapDel(byId, prevId) ELSE byId

\* this._convictsById.set(nextId, convict)
SetIdIndex(byId, n, nextId) == MapSet(byId, nextId, n)

\* _syncConvictIdentity(convict, elm)
SyncConvictIdentity(S, n, e) ==
  LET prevId == S.obj.domId[n]
      prevClasses == S.obj.classList[n]
      nextId == S.dom.id[e]
      nextClasses == S.dom.cls[e]
      byId1 == DropPrevId(S.convictsById, n, prevId)
      byClass1 == RemoveClasses(S.convictsByClass, n, prevClasses)
      name1 == IF nextId # "" THEN nextId
               ELSE IF S.obj.name[n] = prevId THEN "" ELSE S.obj.name[n]
  IN [S EXCEPT
        !.obj.domId[n] = nextId,
        !.obj.classList[n] = nextClasses,
        !.obj.name[n] = name1,
        !.convictsById = IF nextId # "" THEN SetIdIndex(byId1, n, nextId)
                         ELSE byId1,
        !.namedConvicts = IF nextId # "" THEN SetAdd(@, n)
                          ELSE SeqWithout(@, n),
        !.classyConvicts = IF nextClasses # {} THEN SetAdd(@, n)
                           ELSE SeqWithout(@, n),
        !.convictsByClass = IF nextClasses # {}
                            THEN AddClasses(byClass1, n, nextClasses)
                            ELSE byClass1]

\* ConvertDomToObject(elm): whether a constructor exists for the tag.
ConvertDomToObject(e) == TagOf(e) \in ClassMapKeys

\* The scene-graph parent of a convict, as a set with zero or one member
\* (convict.parent); "scene" stands for cell.loadedScene.
ObjParentSet(S, n) ==
  {m \in DOMAIN S.obj.children : n \in SeqRange(S.obj.children[m])}
InScene(S, n) == n \in SeqRange(S.scene)

\* The convict ScanElement attaches a new instance to:
\* this.getConvictByDom(elm.parentElement) || this.loadedScene
ScanParentObj(S, e) ==
  {S.allConvictsByDom[p] : p \in ParentSet(S, e) \cap DOMAIN S.allConvictsByDom}

\* The next unused instance.
NextNode(S) == Cardinality(DOMAIN S.obj.domEl) + 1

\* The end of ScanElement: elm.convict is defined once and never redefined.
DefineConvict(S, e) ==
  IF e \in DOMAIN S.dom.convict THEN S
  ELSE [S EXCEPT !.dom.convict = MapSet(@, e, S.allConvictsByDom[e])]

RECURSIVE ScanElement(_, _)
RECURSIVE ScanChildren(_, _, _)
\* for (let i = 0; i < elm.children.length; i++) this.ScanElement(elm.children[i])
ScanChildren(S, e, i) ==
  IF i > Len(S.dom.kids[e]) THEN S
  ELSE ScanChildren(ScanElement(S, S.dom.kids[e][i]), e, i + 1)

\* ScanElement(elm)
ScanElement(S, e) ==
  IF e \in DOMAIN S.allConvictsByDom THEN S
  ELSE IF ~ConvertDomToObject(e) THEN ScanChildren(S, e, 1)
  ELSE
    LET n == NextNode(S)
        parentObj == ScanParentObj(S, e)
        S1 == [S EXCEPT
                 !.obj.domEl = MapSet(@, n, e),
                 !.obj.domId = MapSet(@, n, ""),
                 !.obj.classList = MapSet(@, n, {}),
                 !.obj.name = MapSet(@, n, ""),
                 !.obj.extraParams = MapSet(@, n, <<>>),
                 !.obj.transition = MapSet(@, n, NoTransition),
                 !.obj.animation = MapSet(@, n, NoAnimation),
                 !.obj.layer3 = MapSet(@, n, FALSE),
                 !.obj.props = MapSet(@, n, NewProps),
                 !.obj.children =
                    IF parentObj = {} THEN MapSet(@, n, <<>>)
                    ELSE LET pn == CHOOSE x \in parentObj : TRUE
                         IN MapSet(MapSet(@, pn, Append(@[pn], n)), n, <<>>),
                 !.scene = IF parentObj = {} THEN Append(@, n) ELSE @,
                 !.allConvictsByDom = MapSet(@, e, n)]
    IN DefineConvict(ScanChildren(SyncConvictIdentity(S1, n, e), e, 1), e)

\* The bookkeeping part of removeConvict (after the children): index
\* entries, namedConvicts / classyConvicts and the DOM-to-node mapping.
ForgetConvict(S, n) ==
  LET domId == S.obj.domId[n]
  IN [S EXCEPT
        !.convictsById = DropPrevId(@, n, domId),
        !.convictsByClass = RemoveClasses(@, n, S.obj.classList[n]),
        !.classyConvicts = SeqWithout(@, n),
        !.namedConvicts = SeqWithout(@, n),
        !.allConvictsByDom = MapDel(@, S.obj.domEl[n])]

\* convict.parent.remove(convict)
DetachFromParent(S, n) ==
  [S EXCEPT !.scene = SeqWithout(@, n),
            !.obj.children = [m \in DOMAIN @ |-> SeqWithout(@[m], n)]]

\* removeConvict after its children loop: the bookkeeping, domEl.remove()
\* and the detaching; the history notes the children still tracked then.
RemoveSelf(S, n) ==
  [DetachFromParent(DomRemove(ForgetConvict(S, n), S.obj.domEl[n]), n)
     EXCEPT !.destroyLog =
        Append(@, [node |-> n,
                   kidsLeft |-> {c \in SeqRange(S.obj.children[n]) :
                                   \E e \in DOMAIN S.allConvictsByDom :
                                     S.allConvictsByDom[e] = c}])]

RECURSIVE RemoveConvict(_, _)
RECURSIVE RemoveChildren(_, _, _)
\* convict.children.slice().forEach(child => ...): the snapshot cs is walked;
\* a child is removed through the convict its DOM element maps to.
RemoveChildren(S, cs, i) ==
  IF i > Len(cs) THEN S
  ELSE LET domNode == S.obj.domEl[cs[i]]
           S1 == IF domNode \in DOMAIN S.allConvictsByDom
                 THEN RemoveConvict(S, S.allConvictsByDom[domNode])
                 ELSE S
       IN RemoveChildren(S1, cs, i + 1)

\* removeConvict(convict), for a convict that is not null
RemoveConvict(S, n) ==
  RemoveSelf(RemoveChildren(S, S.obj.children[n], 1), n)

\* Tracked convicts, and those the identity and class indexes hold under
\* their own keys.
TrackedIn(S) == {S.allConvictsByDom[e] : e \in DOMAIN S.allConvictsByDom}
IndexedIn(S) ==
  {n \in TrackedIn(S) :
     /\ S.obj.domId[n] # "" =>
          /\ S.obj.domId[n] \in DOMAIN S.convictsById
          /\ S.convictsById[S.obj.domId[n]] = n
     /\ \A c \in S.obj.classList[n] :
          c \in DOMAIN S.convictsByClass /\ n \in S.convictsByClass[c]}

\* ------------------------------------------------ styleCache.js, utils.js
\* markGlobalStyleCacheDirty()
markGlobalStyleCacheDirty(S) == [S EXCEPT !.styleCache.version = @ + 1]

\* History: function fn was called under the current style version, with
\* the cache version it found, and scanned the style sheets or did not.
NoteScan(S, fn, cached, scanned) ==
  [S EXCEPT !.styleCache.scans =
     MapSet(@, fn, [version |-> S.styleCache.version, cached |-> cached,
                    scanned |-> scanned,
                    fresh |-> IF fn = "gatherKeyFrame_MAP"
                              THEN S.styleCache.AllKeyFramesMap
                                     = S.styleCache.keyframes
                              ELSE \A name \in DOMAIN S.styleCache.assetRules :
                                     name \in DOMAIN S.styleCache.assetMap])]

\* A gatherKeyFrame_MAP that scans the style sheets on its first call only.
gatherKeyFrameOnce(S) ==
  IF S.styleCache.keyframesCacheVersion >= 0
  THEN NoteScan(S, "gatherKeyFrame_MAP", S.styleCache.keyframesCacheVersion,
                FALSE)
  ELSE NoteScan([S EXCEPT !.styleCache.AllKeyFramesMap = S.styleCache.keyframes,
                          !.styleCache.keyframesCacheVersion =
                             S.styleCache.version],
                "gatherKeyFrame_MAP", S.styleCache.keyframesCacheVersion, TRUE)

\* gatherKeyFrame_MAP(): the cached map while keyframesCacheVersion is the
\* style version, else every @keyframes rule of document.styleSheets.
gatherKeyFrame_MAP(S) ==
  IF S.styleCache.keyframesCacheVersion = S.styleCache.version
  THEN NoteScan(S, "gatherKeyFrame_MAP", S.styleCache.keyframesCacheVersion,
                FALSE)
  ELSE NoteScan([S EXCEPT !.styleCache.AllKeyFramesMap = S.styleCache.keyframes,
                          !.styleCache.keyframesCacheVersion =
                             S.styleCache.version],
                "gatherKeyFrame_MAP", S.styleCache.keyframesCacheVersion, TRUE)

\* No getAsset call has been noted.
NoGet ==
  [name |-> "", path |-> "", before |-> <<>>, result |-> <<>>,
   loadsBefore |-> 0, loadsAfter |-> 0, failedBefore |-> FALSE]

\* What assetMap holds under a name: a built-in geometry, the promise of a
\* load that has not settled (load numbers the loadAsset calls), or the
\* value a load resolved to.
AssetBuiltin(name) == [kind |-> "builtin", url |-> name, load |-> 0]
AssetPending(url, load) == [kind |-> "pending", url |-> url, load |-> load]
AssetLoaded(url, load) == [kind |-> "loaded", url |-> url, load |-> load]
AssetFailed(url, load) == [kind |-> "failed", url |-> url, load |-> load]
Builtins == {"cube", "sphere", "plane", "torus"}

\* storeAssetValue(key, loadAsset(url)): loadAsset returns a promise for
\* every url; the promise is stored until it settles.
storeAssetValue(S, key, url) ==
  [S EXCEPT !.styleCache.loads = @ + 1,
            !.styleCache.assetMap =
               MapSet(@, key, AssetPending(url, S.styleCache.loads + 1))]

\* A load whose failure stays in assetMap.
SettleKeepsFailure(S, key, ok) ==
  IF ok
  THEN [S EXCEPT !.styleCache.assetMap[key] = AssetLoaded(@.url, @.load)]
  ELSE [S EXCEPT !.errored = TRUE,
                 !.styleCache.failed = @ \cup {key},
                 !.styleCache.assetMap[key] = AssetFailed(@.url, @.load)]

\* The then / catch handlers storeAssetValue puts on the promise stored
\* under key: the resolved value replaces the promise; a rejection is
\* logged and the entry deleted.
SettleLoad(S, key, ok) ==
  IF ok
  THEN [S EXCEPT !.styleCache.assetMap[key] = AssetLoaded(@.url, @.load)]
  ELSE [S EXCEPT !.errored = TRUE,
                 !.styleCache.failed = @ \cup {key},
                 !.styleCache.assetMap = MapDel(@, key)]

RECURSIVE registerParsedAssetRuleEntries(_, _, _)
\* registerParsedAssetRuleEntries(entries): a name the asset map does not
\* hold yet is loaded from its url.
registerParsedAssetRuleEntries(S, entries, names) ==
  IF names = {} THEN S
  ELSE LET name == CHOOSE x \in names : TRUE
       IN registerParsedAssetRuleEntries(
            IF name \in DOMAIN S.styleCache.assetMap THEN S
            ELSE storeAssetValue(S, name, entries[name]),
            entries, names \ {name})

\* gatherAssetRules(): nothing while _cacheVersion is the style version,
\* else the asset @-rules of every <style> element are registered.
gatherAssetRules(S) ==
  IF S.styleCache.assetCacheVersion = S.styleCache.version
  THEN NoteScan(S, "gatherAssetRules", S.styleCache.assetCacheVersion, FALSE)
  ELSE NoteScan([registerParsedAssetRuleEntries(
                   S, S.styleCache.assetRules, DOMAIN S.styleCache.assetRules)
                   EXCEPT !.styleCache.assetCacheVersion = S.styleCache.version],
                "gatherAssetRules", S.styleCache.assetCacheVersion, TRUE)

\* The first lines of getAsset: the four built-in geometries are stored
\* when assetMap is empty.
StoreBuiltins(S) ==
  IF DOMAIN S.styleCache.assetMap # {} THEN S
  ELSE [S EXCEPT !.styleCache.assetMap =
          [name \in Builtins |-> AssetBuiltin(name)]]

\* The end of getAsset: a name assetMap does not hold is loaded from the
\* path, when one is given.
LoadMissing(S, name, path) ==
  IF name \in DOMAIN S.styleCache.assetMap \/ path = "" THEN S
  ELSE storeAssetValue(S, name, path)

\* What assetMap holds under a name: one entry or none.
AssetEntry(S, name) ==
  IF name \in DOMAIN S.styleCache.assetMap
  THEN <<S.styleCache.assetMap[name]>> ELSE <<>>

\* History: getAsset(name, path) looked the name up in state S0 and
\* returns in S.
NoteGet(S, S0, name, path) ==
  [S EXCEPT !.styleCache.lastGet =
     [name |-> name, path |-> path, before |-> AssetEntry(S0, name),
      result |-> AssetEntry(S, name),
      loadsBefore |-> S0.styleCache.loads, loadsAfter |-> S.styleCache.loads,
      failedBefore |-> name \in S0.styleCache.failed],
            !.styleCache.lastSettle = <<>>]

\* getAsset(name, path): the entry of assetMap (null without one), after
\* the built-ins and the asset rules have been seen to.
LookUpAsset(S, name, path) ==
  NoteGet(LoadMissing(S, name, path), S, name, path)
getAsset(S, name, path) ==
  LookUpAsset(gatherAssetRules(StoreBuiltins(S)), name, path)

\* -------------------------------------------------------------- artist.js
\* Raw CSS values by their lexical form: "(a, b, c)", a text that starts
\* with a number, or any other text (quoted or not).
RawTuple(v) == [form |-> "paren", parts |-> v, text |-> "", path |-> ""]
RawNumber(v) == [form |-> "number", parts |-> <<v>>, text |-> "", path |-> ""]
RawText(s, quoted) ==
  [form |-> IF quoted THEN "quoted" ELSE "text", parts |-> <<>>, text |-> s,
   path |-> ""]
\* The text "<ms>ms <easing>" of a --transition declaration: it starts with
\* a number.
RawDuration(ms, easing) ==
  [form |-> "number", parts |-> <<ms>>, text |-> easing, path |-> ""]
\* The text "#id-path": a cross-reference to a property of the object that
\* carries the id.
RawRef(id, path) == [form |-> "ref", parts |-> <<>>, text |-> id, path |-> path]

\* The '#' case of CSSValueTo3JSValue fails: getConvictById finds no object,
\* the Error thrown is caught and goes to console.error.
RefFails(S, raw) == raw.form = "ref" /\ raw.text \notin DOMAIN S.convictsById

\* CSSValueTo3JSValue(value, __object): parenthesised lists become arrays of
\* numbers, numeric text a number, a cross-reference the property it names
\* (undefined when the id is not tracked or the object has no such
\* property), anything else a string without its quotes.
CSSValueTo3JSValue(S, raw) ==
  CASE raw.form = "paren" -> Arr(raw.parts)
    [] raw.form = "number" -> Num(raw.parts[1])
    [] raw.form = "ref" ->
         IF RefFails(S, raw) THEN Undef
         ELSE IF raw.path \in DOMAIN S.obj.props[S.convictsById[raw.text]]
         THEN S.obj.props[S.convictsById[raw.text]][raw.path]
         ELSE Undef
    [] OTHER -> Str(raw.text)

Decl(prop, raw) == [prop |-> prop, value |-> raw]
Rule(sels, decls) == [sels |-> sels, style |-> decls]

\* getCSSRule(selector): the first rule, in document order, whose selector
\* list holds the token; zero or one rule.
GetCSSRule(S, selector) ==
  LET hits == {i \in 1..Len(S.sheet) : selector \in S.sheet[i].sels}
  IN IF hits = {} THEN <<>>
     ELSE <<S.sheet[CHOOSE i \in hits : \A j \in hits : i <= j]>>

\* What parent[key] is on a Mesh after deep_searchParms: a vector / colour
\* with set() and toArray(), a method that stores its arguments, a method
\* that moves the object by its argument (translateX), a method or set()
\* that throws on the value, a non-writable field, the transition field of
\* the object, a plain field, or nothing.
KindOf(S, n, key) ==
  CASE key \in {"position", "material-color"} -> "set"
    [] key = "lookAt" -> "fn"
    [] key = "translateX" -> "fnAdds"
    [] key = "transition" -> "transition"
    [] key = "traverse" -> "fnThrows"
    [] key = "custom" -> "setThrows"
    [] key = "id" -> "readonly"
    [] key \in DOMAIN S.obj.props[n] -> "plain"
    [] OTHER -> "missing"

\* Object3D.translateX(distance) of an object that is not rotated.
translateX(S, n, distance) ==
  [S EXCEPT !.obj.props[n]["position"] =
              Arr([@.v EXCEPT ![1] = @ + distance])]

\* exchange_rule(parent, key, value).  Branch 1 (array value, callable
\* target) and branch 2 (target with set()) run outside the try block.
\* Vector3.set(undefined) overwrites the components, Color.set(undefined)
\* changes nothing.
exchange_rule(S, n, key, value) ==
  LET kind == KindOf(S, n, key)
      stored == [S EXCEPT !.obj.props[n] = MapSet(@, key, value)]
  IN IF kind = "fnAdds"
     THEN IF value.t \in {"arr", "num"} /\ value.v # <<>>
          THEN translateX(S, n, value.v[1]) ELSE S
     ELSE IF kind = "transition"
     THEN [S EXCEPT !.obj.transition[n] = PrimitiveTransition]
     ELSE IF value.t = "arr" /\ kind \in {"fn", "fnThrows"}
     THEN IF kind = "fnThrows" THEN [S EXCEPT !.exc = TRUE] ELSE stored
     ELSE IF kind \in {"set", "setThrows"}
     THEN IF kind = "setThrows" THEN [S EXCEPT !.exc = TRUE]
          ELSE IF value.t = "undef" /\ key = "material-color" THEN S
          ELSE stored
     ELSE IF kind \in {"fnThrows", "readonly"}
     THEN [S EXCEPT !.warned = TRUE]
     ELSE stored

\* What onComplete of an animateLerp call does: dispatch TransitionFinished
\* with the selector (_apply_rule), resolve the promise of a property of a
\* keyframe segment (KeyFrameAnimationLerp), or a callback of the page.
Done(kind, sel, run, pass, seg) ==
  [kind |-> kind, sel |-> sel, run |-> run, pass |-> pass, seg |-> seg]
NoDone == Done("", "", 0, 0, 0)

\* A callback registered with requestAnimationFrame: the step closure of
\* one animateLerp call (id numbers the calls), or the full repaint of the
\* cell.
StepCallback(id, n, key, from, to, durationMs, fun, done, start) ==
  [type |-> "step", id |-> id, node |-> n, key |-> key, from |-> from,
   to |-> to, durationMs |-> durationMs, fun |-> fun, done |-> done,
   start |-> start]
RepaintCallback ==
  [type |-> "repaint", id |-> 0, node |-> 0, key |-> "", from |-> Num(0),
   to |-> Num(0), durationMs |-> 0, fun |-> "", done |-> NoDone, start |-> 0]

\* animateLerp(from, to, durationMs, onUpdate, onComplete, timingFunction):
\* a number or an array registers the step callback, anything else does
\* nothing at all.  onUpdate is exchange_rule on property key of object n.
animateLerp(S, n, key, from, to, durationMs, fun, done) ==
  IF from.t \in {"num", "arr"}
  THEN [S EXCEPT !.train.lerps = @ + 1,
                 !.raf = Append(@, StepCallback(S.train.lerps + 1, n, key,
                                                from, to, durationMs, fun,
                                                done, S.now))]
  ELSE [S EXCEPT !.train.lerps = @ + 1]

\* parent[key].toArray instanceof Function ? parent[key].toArray()
\*                                         : parent[key]
\* for a target that exists; a method or an object without toArray() is
\* neither a number nor an array.
FromValue(S, n, key) ==
  IF KindOf(S, n, key) \in {"set", "plain", "readonly"}
     /\ key \in DOMAIN S.obj.props[n]
  THEN S.obj.props[n][key]
  ELSE Str("[object]")

\* One turn of the loop of _apply_rule (lines 356-384).
ApplyParsed(S, prop, parsed, n, sel) ==
  LET tr == S.obj.transition[n]
  IN IF tr # NoTransition
     THEN IF KindOf(S, n, prop) = "missing" \/ tr[1].prim
          THEN [S EXCEPT !.exc = TRUE]
          ELSE animateLerp(S, n, prop, FromValue(S, n, prop), parsed,
                           tr[1].duration, tr[1].timing.fun,
                           Done("event", sel, 0, 0, 0))
     ELSE exchange_rule(S, n, prop, parsed)

\* const parsed = CSSValueTo3JSValue(value, object), with its console.error,
\* then the rest of the turn.
ApplyDecl(S, d, n, sel) ==
  ApplyParsed([S EXCEPT !.errored = @ \/ RefFails(S, d.value)],
              d.prop, CSSValueTo3JSValue(S, d.value), n, sel)

RECURSIVE ApplyDecls(_, _, _, _, _)
ApplyDecls(S, style, n, sel, i) ==
  IF S.exc \/ i > Len(style) THEN S
  ELSE ApplyDecls(ApplyDecl(S, style[i], n, sel), style, n, sel, i + 1)

\* A call of KeyFrameAnimationLerp(object, animationObj), as far as it has
\* come: the pass being played (the recursion shares the descriptor and the
\* promise), the segment, and the animateLerp calls whose promises
\* Promise.all still waits for.  count holds iteration.count of a descriptor
\* the page passed in the call, or nothing; shared names the object whose
\* object.animation is the descriptor (0 for none); asked (the count at the
\* call) and existed (the document had an @keyframes rule of the name at the
\* call) are history.
NewRun(n, name, duration, count, existed) ==
  [node |-> n, name |-> name, duration |-> duration, count |-> count,
   rules |-> <<>>, pass |-> 0, seg |-> 0, waiting |-> {},
   status |-> "running", asked |-> count, existed |-> existed, shared |-> 0]

RECURSIVE KeyFrameAnimationLerp(_, _)

\* .catch(console.error) on the promise of run r.
CatchRejected(S, r) ==
  IF S.train.runs[r].status = "rejected" THEN [S EXCEPT !.errored = TRUE]
  ELSE S

\* if (object.animation)
\*   KeyFrameAnimationLerp(object, object.animation).catch(console.error)
StartAnimation(S, n) ==
  IF S.exc \/ S.obj.animation[n] = NoAnimation THEN S
  ELSE LET a == S.obj.animation[n][1]
       IN CatchRejected(
            KeyFrameAnimationLerp(
              [S EXCEPT !.train.runs =
                 Append(@, [NewRun(n, a.name, a.duration, a.count,
                                   a.name \in DOMAIN S.styleCache.keyframes)
                              EXCEPT !.shared = n])],
              Len(S.train.runs) + 1),
            Len(S.train.runs) + 1)

\* _apply_rule(rule, object, _chosenOne): the pick layer follows the on*
\* attributes of the element, then every declaration is applied in order,
\* then the animation of the object is started.
apply_rule(S, style, n, sel) ==
  IF S.exc THEN S
  ELSE StartAnimation(
         ApplyDecls([S EXCEPT !.obj.layer3[n] = S.dom.handler[S.obj.domEl[n]]],
                    style, n, sel, 1), n)

\* const rule = getCSSRule(selector); if (rule) _apply_rule(rule, obj, sel)
ApplySelector(S, selector, n, sel) ==
  LET rule == GetCSSRule(S, selector)
  IN IF S.exc \/ rule = <<>> THEN S
     ELSE apply_rule(S, rule[1].style, n, sel)

RECURSIVE PaintClassy(_, _, _)
\* for (let obj of muse.classyConvicts): the rule `.${obj.name}`
PaintClassy(S, objs, i) ==
  IF S.exc \/ i > Len(objs) THEN S
  ELSE LET sel == "." \o S.obj.name[objs[i]]
       IN PaintClassy(ApplySelector(S, sel, objs[i], sel), objs, i + 1)

RECURSIVE PaintNamed(_, _, _)
\* for (let obj of muse.namedConvicts): the rule `#${obj.userData.domId}`
PaintNamed(S, objs, i) ==
  IF S.exc \/ i > Len(objs) THEN S
  ELSE LET n == objs[i]
           sel == "#" \o S.obj.domId[n]
       IN PaintNamed(IF S.obj.domId[n] = "" THEN S
                     ELSE ApplySelector(S, sel, n, sel), objs, i + 1)

\* paintCell(muse)
paintCell(S) ==
  PaintNamed(PaintClassy(S, S.classyConvicts, 1), S.namedConvicts, 1)

RECURSIVE PaintPseudo(_, _, _, _, _)
\* muse.userData.extraParams.forEach(param => ... `${prefix}${param}` ...)
PaintPseudo(S, n, prefix, params, i) ==
  IF S.exc \/ i > Len(params) THEN S
  ELSE PaintPseudo(ApplySelector(S, prefix \o params[i], n, ""),
                   n, prefix, params, i + 1)

\* if (muse.userData.domEl.hasAttribute('style')) _apply_rule(domEl, muse)
ApplyInline(S, n) ==
  IF S.dom.style[S.obj.domEl[n]] = <<>> THEN S
  ELSE apply_rule(S, S.dom.style[S.obj.domEl[n]], n, "")

\* paintSpecificMuse(muse)
paintSpecificMuse(S, n) ==
  LET S1 == ApplySelector(S, "." \o S.obj.name[n], n, "")
      S2 == ApplySelector(S1, "#" \o S.obj.domId[n], n, "")
      S3 == PaintPseudo(S2, n, "." \o S.obj.name[n], S.obj.extraParams[n], 1)
      S4 == PaintPseudo(S3, n, "#" \o S.obj.domId[n],
                        IF S.obj.domId[n] = "" THEN <<>>
                        ELSE S.obj.extraParams[n], 1)
  IN ApplyInline(S4, n)

\* paintConvict(convictElm, cell): the inline style is applied to whatever
\* _allConvictsByDom holds for the element; without an entry object.userData
\* throws.
paintConvict(S, e) ==
  IF S.exc THEN S
  ELSE IF e \notin DOMAIN S.allConvictsByDom THEN [S EXCEPT !.exc = TRUE]
  ELSE apply_rule(S, S.dom.style[e], S.allConvictsByDom[e], "")

RECURSIVE RepaintEach(_, _, _, _)
\* The two loops of _repaintKnownConvicts over one list.
RepaintEach(S, objs, i, visited) ==
  IF S.exc \/ i > Len(objs) THEN S
  ELSE IF objs[i] \in visited THEN RepaintEach(S, objs, i + 1, visited)
  ELSE RepaintEach(paintSpecificMuse(S, objs[i]), objs, i + 1,
                   visited \cup {objs[i]})

\* _repaintKnownConvicts()
repaintKnownConvicts(S) ==
  RepaintEach(RepaintEach(S, S.classyConvicts, 1, {}),
              S.namedConvicts, 1, SeqRange(S.classyConvicts))

\* A _scheduleFullRepaint without the test of _pendingStyleRepaint.
scheduleAnotherRepaint(S) ==
  [S EXCEPT !.pendingStyleRepaint = TRUE, !.raf = Append(@, RepaintCallback)]

\* _scheduleFullRepaint()
scheduleFullRepaint(S) ==
  IF S.pendingStyleRepaint THEN S
  ELSE [S EXCEPT !.pendingStyleRepaint = TRUE,
                 !.raf = Append(@, RepaintCallback)]

\* The _styleElemObserver callback (the text of an observed <style>
\* changed): nothing while a repaint is pending, else the style version is
\* raised and the full repaint scheduled.
styleElemObserver(S) ==
  IF S.pendingStyleRepaint THEN S
  ELSE scheduleFullRepaint(markGlobalStyleCacheDirty(S))

\* History: a style-content change notification reached the cell.
Notified(S) == [S EXCEPT !.styleCache.notified = @ + 1]

\* A record of _styleHostObserver (a <style> added to or removed from
\* document.head) or of _styleObserver (a <style> added to or removed from
\* the cell): the style version is raised and the full repaint scheduled.
styleTreeChanged(S) == scheduleFullRepaint(markGlobalStyleCacheDirty(S))

\* History: work done for the cell while _running is false.
NoteWork(S, what) ==
  IF S.loop.running THEN S ELSE [S EXCEPT !.loop.lateWork = @ \cup {what}]

\* dispose(): _running is false, the observers are disconnected (their
\* queued records are dropped) and the listeners removed.  No frame callback
\* is cancelled but that of the pointer move.
dispose(S) ==
  [S EXCEPT !.loop.running = FALSE, !.loop.connected = FALSE,
            !.pending = <<>>]

RECURSIVE RunUpdates(_, _, _)
\* this.updateFunds.forEach(update => update()): a function of the page
\* does work of its own, or calls this.dispose().
RunUpdates(S, funds, i) ==
  IF i > Len(funds) THEN S
  ELSE RunUpdates(IF funds[i] = "dispose" THEN dispose(NoteWork(S, "update"))
                  ELSE NoteWork(S, "update"),
                  funds, i + 1)

\* The default _anim: nothing unless _running, else the update functions,
\* requestAnimationFrame(this._anim) and the render of the focused camera.
anim(S) ==
  IF ~S.loop.running THEN S
  ELSE NoteWork([NoteWork(RunUpdates(S, S.loop.updateFunds, 1), "schedule")
                   EXCEPT !.loop.animScheduled = TRUE],
                "render")

\* The frame callback of the loop, when one is registered.
RunAnim(S) ==
  IF S.loop.animScheduled THEN anim([S EXCEPT !.loop.animScheduled = FALSE])
  ELSE S

RECURSIVE ExtraClassy(_, _, _)
\* paintExtraCell, first loop: `.${obj.name}${param}` for every flag
ExtraClassy(S, objs, i) ==
  IF S.exc \/ i > Len(objs) THEN S
  ELSE ExtraClassy(PaintPseudo(S, objs[i], "." \o S.obj.name[objs[i]],
                               S.obj.extraParams[objs[i]], 1), objs, i + 1)

RECURSIVE ExtraNamed(_, _, _)
\* paintExtraCell, second loop: `#${obj.userData.domId}${param}`
ExtraNamed(S, objs, i) ==
  IF S.exc \/ i > Len(objs) THEN S
  ELSE LET n == objs[i]
       IN ExtraNamed(IF S.obj.domId[n] = "" THEN S
                     ELSE PaintPseudo(S, n, "#" \o S.obj.domId[n],
                                      S.obj.extraParams[n], 1), objs, i + 1)

\* paintExtraCell(muse)
paintExtraCell(S) ==
  ExtraNamed(ExtraClassy(S, S.classyConvicts, 1), S.namedConvicts, 1)

\* --------------------------------------------------------------- Train.js
\* lerpNumber(a, b, t) with t = num / den
lerpNumber(a, b, num, den) == a + ((b - a) * num) \div den

\* lerpValue(from, to, t, lerpNumber): zero or one value; none when it throws
\* (array sizes differ, or a value is neither a number nor an array).
lerpValue(from, to, num, den) ==
  IF from.t = "num" /\ to.t = "num"
  THEN <<Num(lerpNumber(from.v[1], to.v[1], num, den))>>
  ELSE IF from.t = "arr" /\ to.t = "arr"
  THEN IF Len(from.v) # Len(to.v) THEN <<>>
       ELSE <<Arr([i \in 1..Len(from.v) |->
                     lerpNumber(from.v[i], to.v[i], num, den)])>>
  ELSE <<>>

\* _get_Equation(timingFunction) applied to t = num / den: 'linear' and
\* every unknown name are the identity (the model has no other easing).
Ease(fun, num) == num

\* parseTime(keyText) of a keyframe at a percentage of the duration.
parseTime(frame, duration) == (frame.key * duration) \div 100

\* rules.sort((a, b) => parseTime(a.keyText) - parseTime(b.keyText))
SortRules(rules, duration) ==
  SortSeq(rules, LAMBDA a, b : parseTime(a, duration) < parseTime(b, duration))

\* fromProps[key] / toProps[key]: the last declaration of the property in
\* the keyframe wins.
FrameProp(S, frame, key) ==
  LET is == {i \in 1..Len(frame.style) : frame.style[i].prop = key}
  IN CSSValueTo3JSValue(S, frame.style[CHOOSE i \in is : \A j \in is : j <= i].value)

\* Object.keys(fromProps).filter(k => k in toProps), in insertion order.
SegmentKeys(from, to) ==
  LET first == SelectSeq([i \in 1..Len(from.style) |-> i],
                         LAMBDA i : \A j \in 1..(i - 1) :
                                      from.style[j].prop # from.style[i].prop)
      keys == [k \in 1..Len(first) |-> from.style[first[k]].prop]
  IN SelectSeq(keys, LAMBDA key : \E j \in 1..Len(to.style) :
                                    to.style[j].prop = key)

RECURSIVE StartLerps(_, _, _, _)
\* keys.map(key => new Promise(resolve => animateLerp(...))) for segment
\* seg of run r.
StartLerps(S, r, keys, i) ==
  IF i > Len(keys) THEN S
  ELSE LET run == S.train.runs[r]
           from == run.rules[run.seg]
           to == run.rules[run.seg + 1]
       IN StartLerps(
            [animateLerp(S, run.node, keys[i], FrameProp(S, from, keys[i]),
                         FrameProp(S, to, keys[i]),
                         parseTime(to, run.duration)
                           - parseTime(from, run.duration),
                         "linear", Done("resolve", "", r, run.pass, run.seg))
               EXCEPT !.train.runs[r].waiting = @ \cup {S.train.lerps + 1}],
            r, keys, i + 1)

RECURSIVE PlaySegment(_, _)
RECURSIVE AwaitAll(_, _)
\* animationObj.iteration?.count of run r: of the descriptor of the call, or
\* of the object.animation all runs of the object share.
IterationCount(S, r) ==
  IF S.train.runs[r].shared = 0 THEN S.train.runs[r].count
  ELSE S.obj.animation[S.train.runs[r].shared][1].count

\* The end of a pass: iteration.count > 0 is decremented and the function
\* calls itself, anything else lets the promise resolve.
EndPass(S, r) ==
  LET count == IterationCount(S, r)
  IN IF count # <<>> /\ count[1] > 0
     THEN KeyFrameAnimationLerp(
            IF S.train.runs[r].shared = 0
            THEN [S EXCEPT !.train.runs[r].count = <<count[1] - 1>>]
            ELSE [S EXCEPT !.obj.animation[S.train.runs[r].shared][1].count =
                             <<count[1] - 1>>], r)
     ELSE [S EXCEPT !.train.runs[r].status = "resolved"]

\* The body of the segment loop for the current segment of run r.
PlaySegment(S, r) ==
  LET run == S.train.runs[r]
  IN IF run.seg > Len(run.rules) - 1 THEN EndPass(S, r)
     ELSE AwaitAll(StartLerps(S, r, SegmentKeys(run.rules[run.seg],
                                                run.rules[run.seg + 1]), 1),
                   r)

\* A segment loop that does not wait for the promises of the segment.
AwaitNone(S, r) ==
  PlaySegment([S EXCEPT !.train.runs[r].seg = @ + 1], r)

\* await Promise.all(...): the loop goes on once no promise is waited for.
AwaitAll(S, r) ==
  IF S.train.runs[r].waiting # {} THEN S
  ELSE PlaySegment([S EXCEPT !.train.runs[r].seg = @ + 1], r)

\* KeyFrameAnimationLerp(object, animationObj), one pass of run r: the
\* sequence is read from AllKeyFramesMap (the promise is rejected without
\* an entry), sorted, and played from its first segment.
KeyFrameAnimationLerp(S, r) ==
  LET run == S.train.runs[r]
  IN IF run.name \notin DOMAIN S.styleCache.AllKeyFramesMap
     THEN [S EXCEPT !.train.runs[r].status = "rejected"]
     ELSE PlaySegment(
            [S EXCEPT !.train.runs[r].rules =
                         SortRules(S.styleCache.AllKeyFramesMap[run.name],
                                   run.duration),
                      !.train.runs[r].pass = @ + 1,
                      !.train.runs[r].seg = 1], r)

\* History: onUpdate / onComplete of the animateLerp call of c was called.
NoteLerpCall(S, c, kind, value, last) ==
  [S EXCEPT !.train.calls =
     Append(@, [kind |-> kind, id |-> c.id, run |-> c.done.run,
                pass |-> c.done.pass, seg |-> c.done.seg, value |-> value,
                to |-> c.to, last |-> last, at |-> S.now])]

\* onComplete(value): the TransitionFinished event of _apply_rule, the
\* resolve of a keyframe property (the segment loop goes on when it was the
\* last one waited for), or the callback of the page.
Complete(S, c) ==
  CASE c.done.kind = "event" ->
         [S EXCEPT !.events =
            Append(@, [type |-> "TransitionFinished", target |-> c.node,
                       key |-> c.key, selector |-> c.done.sel])]
    [] c.done.kind = "resolve" ->
         AwaitAll([S EXCEPT !.train.runs[c.done.run].waiting = @ \ {c.id}],
                  c.done.run)
    [] OTHER -> S

\* A step that registers itself again although it has called onComplete.
StepEndKeepsTicking(S, c, value, again) ==
  IF S.exc THEN S
  ELSE IF again THEN [S EXCEPT !.raf = Append(@, c)]
  ELSE [Complete(NoteLerpCall(S, c, "complete", value, TRUE), c)
          EXCEPT !.raf = Append(@, c)]

\* The end of step(now), after onUpdate: requestAnimationFrame(step) while
\* t < 1, else onComplete.
StepEnd(S, c, value, again) ==
  IF S.exc THEN S
  ELSE IF again THEN [S EXCEPT !.raf = Append(@, c)]
  ELSE Complete(NoteLerpCall(S, c, "complete", value, TRUE), c)

\* let t = (now - start) / durationMs; if (t > 1) t = 1, as a fraction
\* num / den, with `again` for t < 1.  A positive time over a duration of 0
\* is Infinity and is clipped to 1; over a negative duration t is negative
\* and is never clipped.  (Frames come after the call, so now > start.)
StepT(elapsed, durationMs) ==
  IF durationMs > 0
  THEN [num |-> IF elapsed > durationMs THEN durationMs ELSE elapsed,
        den |-> durationMs, again |-> elapsed < durationMs]
  ELSE IF durationMs = 0
  THEN [num |-> 1, den |-> 1, again |-> FALSE]
  ELSE [num |-> -elapsed, den |-> -durationMs, again |-> TRUE]

\* step(now) of animateLerp: the value at t goes through onUpdate
\* (exchange_rule), then the step is registered again while t < 1, else
\* onComplete is called.
RunStep(S, c) ==
  LET t == StepT(S.now - c.start, c.durationMs)
      value == lerpValue(c.from, c.to, Ease(c.fun, t.num), t.den)
  IN IF value = <<>> THEN [S EXCEPT !.exc = TRUE]
     ELSE StepEnd(exchange_rule(NoteLerpCall(S, c, "update", value[1],
                                          ~t.again),
                                c.node, c.key, value[1]),
                  c, value[1], t.again)

\* History: what a full repaint is about to do (scan the asset rules, paint
\* the tracked nodes) while _running is false.
NoteRepaint(S) ==
  IF S.loop.running THEN S
  ELSE [S EXCEPT !.loop.lateWork =
          @ \cup (IF S.styleCache.assetCacheVersion # S.styleCache.version
                  THEN {"rescan"} ELSE {})
            \cup (IF DOMAIN S.obj.domEl # {} THEN {"paint"} ELSE {})]

\* The requestAnimationFrame callback of a full repaint (cell.js 120-125,
\* 283-288).
RunRepaint(S) ==
  repaintKnownConvicts(paintCell(gatherAssetRules(NoteRepaint(
    [S EXCEPT !.pendingStyleRepaint = FALSE]))))

\* An exception that leaves a callback ends that callback only.
EndCallback(S) ==
  [S EXCEPT !.escaped = @ \/ S.exc, !.exc = FALSE]

RECURSIVE RunCallbacks(_, _, _)
\* One animation frame: the callbacks registered before it run in order.
RunCallbacks(S, cbs, i) ==
  IF i > Len(cbs) THEN S
  ELSE LET S1 == IF cbs[i].type = "repaint" THEN RunRepaint(S)
                 ELSE RunStep(S, cbs[i])
       IN RunCallbacks(EndCallback(S1), cbs, i + 1)

\* ------------------------------------------------- NoScope.js (part_006)
\* addFlag(arr, flag) / delFlag(arr, flag)
addFlag(arr, flag) == IF flag \in SeqRange(arr) THEN arr ELSE Append(arr, flag)
delFlag(arr, flag) == SeqWithout(arr, flag)

RECURSIVE UnderScene(_, _)
\* The objects below loadedScene (intersectObjects(scene.children, true)).
UnderScene(S, ns) ==
  LET more == ns \cup UNION {SeqRange(S.obj.children[m]) : m \in ns}
  IN IF more = ns THEN ns ELSE UnderScene(S, more)

\* What the raycaster (layer 3 only) can hit.
Pickable(S) == {n \in UnderScene(S, SeqRange(S.scene)) : S.obj.layer3[n]}

\* The pointer leaves lastHit (for another object or for none): the :hover
\* flag goes and the object is repainted.
\* A pointer move that repaints the node the pointer left but keeps its
\* ':hover' flag.
PointerLeaveKeepsFlag(S, hit) ==
  IF S.lastCast # {} /\ hit # S.lastCast
  THEN paintSpecificMuse(S, CHOOSE x \in S.lastCast : TRUE)
  ELSE S

PointerLeave(S, hit) ==
  IF S.lastCast # {} /\ hit # S.lastCast
  THEN LET l == CHOOSE x \in S.lastCast : TRUE
       IN paintSpecificMuse(
            [S EXCEPT !.obj.extraParams[l] = delFlag(@, ":hover")], l)
  ELSE S

\* cell._last_cast_caught = hit.object (or null), and the :hover flag of
\* the object that is hit.
PointerEnter(S, hit) ==
  IF S.exc THEN S
  ELSE IF hit = {} THEN [S EXCEPT !.lastCast = {}]
  ELSE [S EXCEPT !.lastCast = hit,
                 !.obj.extraParams[CHOOSE x \in hit : TRUE] =
                    addFlag(@, ":hover")]

\* default_onCellPointerMove_method(domEvt, cell); hit is the set holding
\* the nearest intersected object, or the empty set.
onCellPointerMove(S, hit) ==
  IF hit # {} THEN paintExtraCell(PointerEnter(PointerLeave(S, hit), hit))
  ELSE IF S.lastCast # {} THEN PointerEnter(PointerLeave(S, hit), hit)
  ELSE S

\* The handlers that read cell._last_cast_caught instead of casting a ray:
\* nothing without a hit, else the flag is added or removed on the hit
\* object, the on* handler of its element is called and paintExtraCell
\* runs.
WithFlag(S, flag) ==
  [S EXCEPT !.obj.extraParams[CHOOSE x \in S.lastCast : TRUE] =
              addFlag(@, flag)]
WithoutFlag(S, flag) ==
  [S EXCEPT !.obj.extraParams[CHOOSE x \in S.lastCast : TRUE] =
              delFlag(@, flag)]
\* default_onCellClick_method
onCellClick(S) ==
  IF S.lastCast = {} THEN S ELSE paintExtraCell(WithFlag(S, ":focus"))
\* default_onCellMouseDown_method
onCellMouseDown(S) ==
  IF S.lastCast = {} THEN S ELSE paintExtraCell(WithFlag(S, ":active"))
\* default_onCellMouseUp_method
onCellMouseUp(S) ==
  IF S.lastCast = {} THEN S ELSE paintExtraCell(WithoutFlag(S, ":active"))
\* default_onCellDoubleClick_method
onCellDoubleClick(S) ==
  IF S.lastCast = {} THEN S ELSE paintExtraCell(WithFlag(S, ":focus"))
\* default_onCellContextMenu_method
onCellContextMenu(S) ==
  IF S.lastCast = {} THEN S ELSE paintExtraCell(S)

\* History: what the handler of record r did between S and S1.
Recorded(S, r, S1) ==
  LET e == r.node
      known == e \in DOMAIN S.allConvictsByDom
  IN [S1 EXCEPT !.lastRec =
        [kind |-> r.kind, node |-> e,
         convict |-> IF r.kind = "attr"
                     THEN (IF e \in DOMAIN S.dom.convict
                           THEN {S.dom.convict[e]} ELSE {})
                     ELSE IF r.kind = "removed"
                     THEN (IF known THEN {S.allConvictsByDom[e]} ELSE {})
                     ELSE (IF e \in DOMAIN S1.allConvictsByDom
                           THEN {S1.allConvictsByDom[e]} ELSE {}),
         formerId |-> IF known THEN S.obj.domId[S.allConvictsByDom[e]] ELSE "",
         lost |-> (IndexedIn(S) \cap TrackedIn(S1)) \ IndexedIn(S1)]]

\* const convict = this.getConvictByDom(node);
\* if (convict) paintSpecificMuse(convict)
PaintAdded(S, e) ==
  IF e \in DOMAIN S.allConvictsByDom
  THEN paintSpecificMuse(S, S.allConvictsByDom[e])
  ELSE S

\* One record of the _styleObserver callback (childList / attributes).
HandleRecord(S, r) ==
  LET e == r.node
  IN Recorded(S, r,
       CASE r.kind = "added" -> PaintAdded(ScanElement(S, e), e)
         [] r.kind = "removed" ->
              IF e \in DOMAIN S.allConvictsByDom
              THEN RemoveConvict(S, S.allConvictsByDom[e]) ELSE S
         [] r.kind = "attr" ->
              IF e \notin DOMAIN S.dom.convict THEN S
              ELSE IF r.attr \in {"id", "class"}
              THEN paintSpecificMuse(
                     SyncConvictIdentity(S, S.dom.convict[e], e),
                     S.dom.convict[e])
              ELSE paintConvict(S, e))

RECURSIVE HandleBatch(_, _, _)
\* mutationList.forEach(mutation => ...)
HandleBatch(S, batch, i) ==
  IF S.exc \/ i > Len(batch) THEN S
  ELSE HandleBatch(HandleRecord(S, batch[i]), batch, i + 1)

RECURSIVE DeliverAll(_)
\* The microtask checkpoint: the callback runs with the queued records, and
\* again while its own DOM changes (domEl.remove()) queue further records.
DeliverAll(S) ==
  IF S.pending = <<>> THEN S
  ELSE DeliverAll(EndCallback(
         HandleBatch([S EXCEPT !.pending = <<>>], S.pending, 1)))

\* ------------------------------------------------------------ the Cell spec
IdsE == Ids \cup {""}
Meshes == {e \in Elems : ConvertDomToObject(e)}
NoRec ==
  [kind |-> "none", node |-> "", convict |-> {}, formerId |-> "", lost |-> {}]
NoBatch == [recs |-> <<>>, kids |-> EmptyMap, nodesBefore |-> {}]
\* A script step starts a new run: the histories of the last handler run end.
NoPaint ==
  [kind |-> "none", nodes |-> {}, rafBefore |-> <<>>, started |-> <<>>,
   propsBefore |-> EmptyMap]
Forget(S) ==
  [S EXCEPT !.lastRec = NoRec, !.destroyLog = <<>>, !.events = <<>>,
            !.escaped = FALSE, !.warned = FALSE, !.errored = FALSE,
            !.lastPaint = NoPaint, !.train.calls = <<>>]

\* The documents a cell is constructed over.
InitKids ==
  { [p \in {CellElm} \cup Elems |-> <<>>],
    [p \in {CellElm} \cup Elems |->
       CASE p = CellElm -> <<"m1">> [] p = "m1" -> <<"div">>
         [] p = "div" -> <<"m2">> [] OTHER -> <<>>],
    [p \in {CellElm} \cup Elems |->
       IF p = CellElm THEN <<"m1", "m2">> ELSE <<>>] }

\* The style sheet the cells of the synchronisation runs are painted from.
CellSheet ==
  << Rule({"#a"}, <<Decl("position", RawTuple(<<Q(1), Q(2), Q(3)>>))>>),
     Rule({".k"}, <<Decl("renderOrder", RawNumber(Q(1)))>>) >>

\* The Cell's fields as the constructor sets them, before the initial scan,
\* over a document with the given children, ids, classes, inline styles and
\* on* attributes, and the given style sheet.
Constructed(kids, ids, cls, style, handler, sh) ==
  [dom |-> [kids |-> kids,
            id |-> [e \in Elems |-> IF e \in Meshes THEN ids[e] ELSE ""],
            cls |-> [e \in Elems |-> IF e \in Meshes THEN cls[e] ELSE {}],
            style |-> [e \in Elems |-> IF e \in Meshes THEN style[e] ELSE <<>>],
            handler |-> [e \in Elems |-> e \in Meshes /\ handler[e]],
            convict |-> EmptyMap],
   obj |-> [domEl |-> EmptyMap, domId |-> EmptyMap, classList |-> EmptyMap,
            name |-> EmptyMap, children |-> EmptyMap,
            extraParams |-> EmptyMap, transition |-> EmptyMap,
            animation |-> EmptyMap,
            layer3 |-> EmptyMap, props |-> EmptyMap],
   scene |-> <<>>,
   allConvictsByDom |-> EmptyMap, convictsById |-> EmptyMap,
   convictsByClass |-> EmptyMap, namedConvicts |-> <<>>,
   classyConvicts |-> <<>>,
   pending |-> <<>>, lastRec |-> NoRec, destroyLog |-> <<>>,
   sheet |-> sh, raf |-> <<>>, now |-> 0, pendingStyleRepaint |-> FALSE,
   lastCast |-> {}, events |-> <<>>, escaped |-> FALSE, warned |-> FALSE,
   errored |-> FALSE,
   lastPaint |-> NoPaint,
   train |-> [lerps |-> 0, runs |-> <<>>, calls |-> <<>>, lastCall |-> <<>>],
   styleCache |->
     [version |-> 0, keyframes |-> EmptyMap, assetRules |-> EmptyMap,
      AllKeyFramesMap |-> EmptyMap, keyframesCacheVersion |-> -1,
      assetMap |-> EmptyMap, assetCacheVersion |-> -1,
      notified |-> 0, scans |-> <<>>,
      loads |-> 0, failed |-> {}, lastGet |-> NoGet, lastSettle |-> <<>>],
   loop |-> [running |-> FALSE, connected |-> FALSE, animScheduled |-> FALSE,
             updateFunds |-> <<>>, lateWork |-> {}],
   exc |-> FALSE]

\* _ScanCell()
ScanCell(S) == ScanChildren(S, CellElm, 1)

\* The constructor: the initial scan, the asset rules, the initial paint,
\* the observers and listeners, and the first turn of the frame loop.
Construct(S) ==
  [paintCell(gatherAssetRules(ScanCell(S)))
     EXCEPT !.loop = [@ EXCEPT !.running = TRUE, !.connected = TRUE,
                               !.animScheduled = TRUE]]

\* The variables hold the fields of a constructed cell.
StartsAs(S) ==
  /\ dom = S.dom /\ obj = S.obj /\ scene = S.scene
  /\ allConvictsByDom = S.allConvictsByDom
  /\ convictsById = S.convictsById
  /\ convictsByClass = S.convictsByClass
  /\ namedConvicts = S.namedConvicts
  /\ classyConvicts = S.classyConvicts
  /\ pending = S.pending /\ lastRec = S.lastRec /\ destroyLog = S.destroyLog
  /\ sheet = S.sheet /\ raf = S.raf /\ now = S.now
  /\ pendingStyleRepaint = S.pendingStyleRepaint /\ lastCast = S.lastCast
  /\ events = S.events /\ escaped = S.escaped /\ warned = S.warned
  /\ errored = S.errored
  /\ lastPaint = S.lastPaint
  /\ train = S.train /\ styleCache = S.styleCache /\ loop = S.loop
  /\ lastBatch = NoBatch

CellInit ==
  \E kids \in InitKids, ids \in [Meshes -> IdsE] :
    /\ StartsAs(Construct(Constructed(kids, ids, [e \in Meshes |-> {}],
                                      [e \in Meshes |-> <<>>],
                                      [e \in Meshes |-> FALSE], CellSheet)))
    /\ opsLeft = MaxOps

\* Added records still queued: each may create a convict per <mesh>.
QueuedAdds == Cardinality({i \in 1..Len(pending) : pending[i].kind = "added"})
NodesUsed == Cardinality(DOMAIN obj.domEl)

\* script: p.appendChild(e)
ScriptAppend(e, p) ==
  /\ opsLeft > 0
  /\ Len(pending) + 2 <= MaxPending
  /\ NodesUsed + Cardinality(Meshes) * (QueuedAdds + 1) <= MaxNodes
  /\ p \notin {e} \cup Descendants(Cur, e)
  /\ Install(DomAppend(Forget(Cur), e, p))
  /\ opsLeft' = opsLeft - 1
  /\ lastBatch' = NoBatch

\* script: e.remove()
ScriptRemove(e) ==
  /\ opsLeft > 0
  /\ Len(pending) < MaxPending
  /\ ParentSet(Cur, e) # {}
  /\ Install(DomRemove(Forget(Cur), e))
  /\ opsLeft' = opsLeft - 1
  /\ lastBatch' = NoBatch

\* An attribute write: a record is queued when e is in the observed subtree
\* (attributeFilter: style, id, class).
AttrRecord(S, e, attr) ==
  IF InCell(S, e) THEN [S EXCEPT !.pending = Append(@, Rec("attr", e, attr))]
  ELSE S

\* script: e.id = i
ScriptSetId(e, i) ==
  /\ opsLeft > 0
  /\ Len(pending) < MaxPending
  /\ i # dom.id[e]
  /\ Install(AttrRecord([Forget(Cur) EXCEPT !.dom.id[e] = i], e, "id"))
  /\ opsLeft' = opsLeft - 1
  /\ lastBatch' = NoBatch

\* script: e.className = cs
ScriptSetClass(e, cs) ==
  /\ opsLeft > 0
  /\ Len(pending) < MaxPending
  /\ cs # dom.cls[e]
  /\ Install(AttrRecord([Forget(Cur) EXCEPT !.dom.cls[e] = cs], e, "class"))
  /\ opsLeft' = opsLeft - 1
  /\ lastBatch' = NoBatch

\* History: removeConvict(n) was called in the current state and led to S.
NoteCall(S, n) ==
  [S EXCEPT !.lastRec =
     [kind |-> "removeConvict", node |-> obj.domEl[n],
      convict |-> {n}, formerId |-> obj.domId[n],
      lost |-> (IndexedIn(Cur) \cap TrackedIn(S)) \ IndexedIn(S)]]

\* script: cell.removeConvict(object) on a tracked object
CallRemoveConvict(n) ==
  /\ opsLeft > 0
  /\ Len(pending) + Cardinality(Meshes) <= MaxPending
  /\ \E e \in DOMAIN allConvictsByDom : allConvictsByDom[e] = n
  /\ Install(NoteCall(RemoveConvict(Forget(Cur), n), n))
  /\ opsLeft' = opsLeft - 1
  /\ lastBatch' = NoBatch

\* History: the paint pass that led to S, the callbacks that were waiting
\* when it began, the step callbacks it registered and the properties the
\* objects had when it began.
NotePaint(S, kind, nodes, before) ==
  [S EXCEPT !.lastPaint =
     [kind |-> kind,
      nodes |-> nodes \cup S.lastRec.convict,
      rafBefore |-> SelectSeq(before, LAMBDA c : c.type = "step"),
      started |-> SelectSeq(S.raf, LAMBDA c : c.type = "step"
                                              /\ c.start = S.now
                                              /\ c \notin SeqRange(before)),
      propsBefore |-> obj.props]]

\* The paint pass the handler of a record ends with.
PaintKind(r) ==
  CASE r.kind = "added" -> "specific"
    [] r.kind = "attr" /\ r.attr \in {"id", "class"} -> "specific"
    [] r.kind = "attr" -> "convict"
    [] OTHER -> "none"

\* The _styleObserver callback, run until no record is left.
Deliver ==
  /\ pending # <<>>
  /\ Install(NotePaint(DeliverAll(Forget(Cur)),
                       PaintKind(pending[Len(pending)]), {}, raf))
  /\ lastBatch' = [recs |-> pending, kids |-> dom.kids,
                   nodesBefore |-> DOMAIN obj.domEl]
  /\ UNCHANGED opsLeft

CellNext ==
  \/ \E e \in Elems, p \in {CellElm} \cup Elems : ScriptAppend(e, p)
  \/ \E e \in Elems : ScriptRemove(e)
  \/ \E e \in Meshes, i \in IdsE : ScriptSetId(e, i)
  \/ \E e \in Meshes, cs \in SUBSET Classes : ScriptSetClass(e, cs)
  \/ \E n \in 1..MaxNodes : CallRemoveConvict(n)
  \/ Deliver

SpecCell == CellInit /\ [][CellNext]_cellVars

\* ------------------------------------------------------- the Cell's lookups
Tracked == TrackedIn(Cur)
\* getConvictById(id): the set holding the result, empty for undefined
GetConvictById(id) ==
  IF id \in DOMAIN convictsById THEN {convictsById[id]} ELSE {}
\* getConvictsByClass(className)
GetConvictsByClass(c) ==
  IF c \in DOMAIN convictsByClass THEN convictsByClass[c] ELSE {}
\* getConvictByDom(element)
GetConvictByDom(e) ==
  IF e \in DOMAIN allConvictsByDom THEN {allConvictsByDom[e]} ELSE {}

\* Convicts an index or a convict list still holds for element e.
EntriesFor(e) ==
  {n \in DOMAIN obj.domEl :
     /\ obj.domEl[n] = e
     /\ \/ \E i \in DOMAIN convictsById : convictsById[i] = n
        \/ \E c \in DOMAIN convictsByClass : n \in convictsByClass[c]
        \/ n \in SeqRange(namedConvicts) \cup SeqRange(classyConvicts)
        \/ n \in Tracked}

\* --------------------------------------------------------------- claims
\* C1: in every reachable state every tracked node with a non-empty identity
\* key (userData.domId) is the value getConvictById returns for exactly that
\* key, and no identity key belongs to two tracked nodes, also when two
\* elements of the cell carry the same id.
C1_IdentityIndexExclusive ==
  /\ \A n \in Tracked :
       obj.domId[n] # "" => GetConvictById(obj.domId[n]) = {n}
  /\ \A n, m \in Tracked :
       (n # m /\ obj.domId[n] # "") => obj.domId[n] # obj.domId[m]

\* C2: once an id or class attribute change of a tracked element has been
\* handled, getConvictById(previous id) no longer returns the element's node,
\* getConvictById(new id) returns it, getConvictsByClass(c) holds it exactly
\* for the classes the element carries, and no other tracked node lost its
\* own index entry.
C2_AttrChangeResynced ==
  (pending = <<>> /\ lastRec.kind = "attr"
     /\ lastRec.node \in DOMAIN allConvictsByDom) =>
    LET e == lastRec.node
        n == allConvictsByDom[e]
    IN /\ (lastRec.formerId # "" /\ lastRec.formerId # dom.id[e]) =>
            n \notin GetConvictById(lastRec.formerId)
       /\ dom.id[e] # "" => GetConvictById(dom.id[e]) = {n}
       /\ \A c \in Classes : n \in GetConvictsByClass(c) <=> c \in dom.cls[e]
       /\ lastRec.lost = {}

\* C3: in every reachable state each tracked node is in the bucket of every
\* class of its class list, every node in a bucket is tracked and carries the
\* bucket's class, and the group index holds no empty bucket.
C3_ClassBuckets ==
  /\ \A n \in Tracked : \A c \in obj.classList[n] :
       n \in GetConvictsByClass(c)
  /\ \A c \in DOMAIN convictsByClass :
       /\ convictsByClass[c] # {}
       /\ \A n \in convictsByClass[c] :
            n \in Tracked /\ c \in obj.classList[n]

\* C4: after a tracked element was removed (removal record or removeConvict
\* call) its node is in no index, no convict list and not in the DOM-to-node
\* mapping, has no scene-graph parent, and getConvictById(former id) finds
\* nothing.
C4_RemovedNodeGone ==
  (lastRec.kind \in {"removed", "removeConvict"} /\ lastRec.convict # {}) =>
    \A n \in lastRec.convict :
      /\ \A i \in DOMAIN convictsById : convictsById[i] # n
      /\ \A c \in DOMAIN convictsByClass : n \notin convictsByClass[c]
      /\ n \notin SeqRange(namedConvicts) \cup SeqRange(classyConvicts)
      /\ n \notin Tracked
      /\ ObjParentSet(Cur, n) = {} /\ ~InScene(Cur, n)
      /\ lastRec.formerId # "" => GetConvictById(lastRec.formerId) = {}

\* C5: when an element has left the tracked subtree and its removal record
\* was handled, every tracked node whose element lies in the removed subtree
\* is destroyed, children before their parent, and is gone from the indexes
\* and the mapping: also below an unrecognized wrapper, and when the removed
\* element is itself unrecognized.
C5_RemovedSubtreeDestroyed ==
  (pending = <<>> /\ lastRec.kind = "removed" /\ ~InCell(Cur, lastRec.node)) =>
    /\ \A d \in {lastRec.node} \cup Descendants(Cur, lastRec.node) :
         EntriesFor(d) = {}
    /\ \A i \in 1..Len(destroyLog) : destroyLog[i].kidsLeft = {}

\* The last childList record of the batch that names element e.
LastChildRec(recs, e) ==
  LET is == {i \in 1..Len(recs) :
               recs[i].node = e /\ recs[i].kind \in {"added", "removed"}}
  IN recs[CHOOSE i \in is : \A j \in is : j <= i].kind
BothInBatch(recs, e) ==
  /\ \E i \in 1..Len(recs) : recs[i].node = e /\ recs[i].kind = "added"
  /\ \E i \in 1..Len(recs) : recs[i].node = e /\ recs[i].kind = "removed"
\* Whether e is inside the cell in the document the script left.
RECURSIVE InCellOf(_, _)
InCellOf(kids, p) ==
  IF p = CellElm THEN TRUE
  ELSE \E q \in DOMAIN kids : p \in SeqRange(kids[q]) /\ InCellOf(kids, q)

\* C6: a batch that holds an add record and a remove record of one element
\* ends in the tracking state of the element's final place: after
\* add-then-remove no index or mapping entry is left; after
\* remove-then-re-add the element is still in the DOM, tracked by a freshly
\* created node and indexed under its id and classes.
C6_SameBatchAddRemove ==
  \A e \in Meshes :
    (pending = <<>> /\ BothInBatch(lastBatch.recs, e)) =>
      IF InCellOf(lastBatch.kids, e) /\ LastChildRec(lastBatch.recs, e) = "added"
      THEN /\ InCell(Cur, e)
           /\ e \in DOMAIN allConvictsByDom
           /\ allConvictsByDom[e] \notin lastBatch.nodesBefore
           /\ dom.id[e] # "" =>
                GetConvictById(dom.id[e]) = {allConvictsByDom[e]}
           /\ \A c \in dom.cls[e] :
                allConvictsByDom[e] \in GetConvictsByClass(c)
      ELSE EntriesFor(e) = {}


\* ---------------------------------------------------------- the paint spec
\* Frames the clock may reach.
MaxTime == 4
\* Script operations and pointer events of one paint run.
MaxPaintOps == 2

\* The document of the paint runs: two sibling <mesh> in the cell.
PaintKids ==
  [p \in {CellElm} \cup Elems |-> IF p = CellElm THEN <<"m1", "m2">> ELSE <<>>]

RED == <<Q(1), 0, 0>>
BLUE == <<0, 0, Q(1)>>
GREEN == <<0, Q(1), 0>>
\* The style sheets a page may carry or switch to.
ColorSheet ==
  << Rule({".k"}, <<Decl("material-color", RawTuple(RED)),
                    Decl("renderOrder", RawNumber(Q(1)))>>),
     Rule({"#a"}, <<Decl("material-color", RawTuple(BLUE))>>),
     Rule({".k:hover"}, <<Decl("material-color", RawTuple(GREEN))>>),
     Rule({"#a:hover"}, <<Decl("renderOrder", RawNumber(Q(2)))>>) >>
MoveSheet ==
  << Rule({"#a"}, <<Decl("position", RawTuple(<<Q(4), Q(2), Q(3)>>))>>) >>
FailSheet ==
  << Rule({"#a"}, <<Decl("traverse", RawTuple(<<Q(1)>>)),
                    Decl("material-color", RawTuple(BLUE))>>),
     Rule({".k"}, <<Decl("foo", RawNumber(Q(1))),
                    Decl("renderOrder", RawNumber(Q(1)))>>) >>
\* Cross-references to a property of the object with id "k", and of an
\* object no element ever names.
RefSheet ==
  << Rule({"#a"}, <<Decl("renderOrder", RawRef("k", "renderOrder")),
                    Decl("position", RawRef("ghost", "position"))>>),
     Rule({"#k"}, <<Decl("renderOrder", RawNumber(Q(2)))>>) >>
PaintSheets == {CellSheet, ColorSheet, MoveSheet, FailSheet, RefSheet}

\* Inline style attributes, and the transitions a script sets.
InlineStyles ==
  {<<>>, <<Decl("traverse", RawNumber(Q(1))),
           Decl("renderOrder", RawNumber(Q(3)))>>,
   <<Decl("position", RawTuple(<<Q(4), Q(2), Q(3)>>))>>}
Transitions == {NoTransition, Transition(2, "linear")}
PaintIds == {"", "a", "k"}

PaintInit ==
  \E id1 \in {"a", "k"}, st \in InlineStyles, sh \in PaintSheets :
    LET S == Construct(Constructed(PaintKids,
                                   [e \in Meshes |-> IF e = "m1" THEN id1 ELSE ""],
                                   [e \in Meshes |-> {"k"}],
                                   [e \in Meshes |-> IF e = "m1" THEN st ELSE <<>>],
                                   [e \in Meshes |-> e = "m1"], sh))
    IN /\ ~S.exc
       /\ StartsAs(S)
       /\ opsLeft = MaxPaintOps

\* script: e.setAttribute('style', ...) / e.style.setProperty(...)
ScriptSetStyle(e, st) ==
  /\ opsLeft > 0
  /\ Len(pending) < MaxPending
  /\ st # dom.style[e]
  /\ Install(AttrRecord([Forget(Cur) EXCEPT !.dom.style[e] = st], e, "style"))
  /\ opsLeft' = opsLeft - 1
  /\ lastBatch' = NoBatch

\* script: the text of a <style> element changes; the _styleElemObserver
\* callback schedules the full repaint.
StyleEdit(sh) ==
  /\ opsLeft > 0
  /\ pending = <<>>
  /\ sh # sheet
  /\ Install(styleElemObserver(Notified([Forget(Cur) EXCEPT !.sheet = sh])))
  /\ opsLeft' = opsLeft - 1
  /\ lastBatch' = NoBatch

\* script: object.transition = tr
SetTransition(n, tr) ==
  /\ opsLeft > 0
  /\ n \in Tracked
  /\ tr # obj.transition[n]
  /\ Install([Forget(Cur) EXCEPT !.obj.transition[n] = tr])
  /\ opsLeft' = opsLeft - 1
  /\ lastBatch' = NoBatch

\* A mousemove event on the cell; hit is what the ray meets.
PointerMove(hit) ==
  /\ opsLeft > 0
  /\ pending = <<>>
  /\ hit \subseteq Pickable(Cur)
  /\ (hit # {} \/ lastCast # {})
  /\ Install(NotePaint(onCellPointerMove(Forget(Cur), hit), "extra",
                       hit \cup lastCast, raf))
  /\ opsLeft' = opsLeft - 1
  /\ lastBatch' = NoBatch

\* History: a frame that ran the full repaint is a paint pass; any other
\* frame ends the state a paint pass of one object left.
NoteFrame(S, before) ==
  IF \E i \in 1..Len(before) : before[i].type = "repaint"
  THEN NotePaint([S EXCEPT !.lastRec = NoRec], "full", TrackedIn(S), before)
  ELSE [S EXCEPT !.lastPaint.kind =
          IF @ \in {"specific", "convict", "extra"} THEN "frame" ELSE @]

\* One animation frame, dt after the last one: the callback of the frame
\* loop, then the other registered callbacks.  A frame in which the loop has
\* nothing to do and no other callback is registered is left out.
Frame(dt) ==
  /\ \/ raf # <<>>
     \/ loop.animScheduled /\ (loop.updateFunds # <<>> \/ ~loop.running)
  /\ pending = <<>>
  /\ now + dt <= MaxTime
  /\ Install(NoteFrame(RunCallbacks(RunAnim([Cur EXCEPT !.now = now + dt,
                                                         !.raf = <<>>]),
                                     raf, 1), raf))
  /\ UNCHANGED <<opsLeft, lastBatch>>

PaintNext ==
  \/ \E e \in Meshes, i \in PaintIds : ScriptSetId(e, i)
  \/ \E e \in Meshes, cs \in SUBSET Classes : ScriptSetClass(e, cs)
  \/ \E e \in Meshes, st \in InlineStyles : ScriptSetStyle(e, st)
  \/ \E sh \in PaintSheets : StyleEdit(sh)
  \/ \E n \in 1..MaxNodes, tr \in Transitions : SetTransition(n, tr)
  \/ \E hit \in {{}} \cup {{n} : n \in 1..MaxNodes} : PointerMove(hit)
  \/ Deliver
  \/ \E dt \in 1..2 : Frame(dt)

SpecPaint == PaintInit /\ [][PaintNext]_cellVars


\* ------------------------------------------------ claims about the painter
\* The declarations of the rule for a selector token (none without a rule).
StyleOf(selector) ==
  LET rule == GetCSSRule(Cur, selector)
  IN IF rule = <<>> THEN <<>> ELSE rule[1].style

RECURSIVE Flatten(_)
Flatten(ss) == IF ss = <<>> THEN <<>> ELSE Head(ss) \o Flatten(Tail(ss))

\* The declarations that reach node n in the order the documentation gives:
\* the rules of its classes, the rule of its id, per active flag the pseudo
\* rules of its classes and of its id, then the inline declarations.
DocumentedCascade(n) ==
  LET cs == obj.classList[n]
      id == obj.domId[n]
      flags == obj.extraParams[n]
      classRules == IF cs = {} THEN <<>>
                    ELSE StyleOf("." \o (CHOOSE c \in cs : TRUE))
      idRules == IF id = "" THEN <<>> ELSE StyleOf("#" \o id)
      classPseudo == IF cs = {} THEN <<>>
                     ELSE Flatten([i \in 1..Len(flags) |->
                            StyleOf(("." \o (CHOOSE c \in cs : TRUE)) \o flags[i])])
      idPseudo == IF id = "" THEN <<>>
                  ELSE Flatten([i \in 1..Len(flags) |->
                         StyleOf(("#" \o id) \o flags[i])])
  IN classRules \o idRules \o classPseudo \o idPseudo
       \o dom.style[obj.domEl[n]]

\* The declarations paintSpecificMuse looks up for node n, in its order.
LookedUpCascade(n) ==
  LET nm == obj.name[n]
      id == obj.domId[n]
      flags == obj.extraParams[n]
  IN StyleOf("." \o nm) \o StyleOf("#" \o id)
       \o Flatten([i \in 1..Len(flags) |-> StyleOf(("." \o nm) \o flags[i])])
       \o (IF id = "" THEN <<>>
           ELSE Flatten([i \in 1..Len(flags) |->
                  StyleOf(("#" \o id) \o flags[i])]))
       \o dom.style[obj.domEl[n]]

\* The value the last declaration of a property in a cascade gives it.
LatestValue(cascade, prop) ==
  LET is == {i \in 1..Len(cascade) : cascade[i].prop = prop}
  IN CSSValueTo3JSValue(Cur, cascade[CHOOSE i \in is : \A j \in is : j <= i].value)

\* Whether writing the property of node n can succeed at all.
Writable(n, prop) ==
  KindOf(Cur, n, prop) \in {"set", "fn", "plain", "missing"}

\* Node n holds, for every writable property a cascade declares, the value
\* of the latest declaration.
Holds(n, cascade) ==
  \A i \in 1..Len(cascade) :
    Writable(n, cascade[i].prop) =>
      /\ cascade[i].prop \in DOMAIN obj.props[n]
      /\ obj.props[n][cascade[i].prop] = LatestValue(cascade, cascade[i].prop)

\* The handler run that just ended painted exactly node n with
\* paintSpecificMuse, immediately (no transition, no interpolation running)
\* and without an exception.
JustPainted(n) ==
  /\ lastPaint.kind = "specific"
  /\ n \in lastPaint.nodes \cap Tracked
  /\ dom.convict[obj.domEl[n]] = n
  /\ obj.transition[n] = NoTransition
  /\ raf = <<>> /\ pending = <<>> /\ ~escaped

\* C7: after paintSpecificMuse(node) every declared property holds the value
\* of the latest source in the order class rule, id rule, pseudo-state rules
\* of the active flags, inline declarations; a property declared only by an
\* earlier source holds that source's value.
C7_PaintOrder ==
  \A n \in 1..MaxNodes : JustPainted(n) => Holds(n, DocumentedCascade(n))

\* Whether a declaration list sets the property.
Declares(style, prop) == \E i \in 1..Len(style) : style[i].prop = prop

\* Nothing is waiting to run and nothing failed: the cell is painted.
Settled ==
  /\ pending = <<>> /\ raf = <<>> /\ ~escaped
  /\ \A n \in Tracked : obj.transition[n] = NoTransition

\* C8: two sibling nodes share a class whose rule sets --material-color and
\* only the first has an id rule that sets it too (no pseudo-state flags, no
\* inline colour): once the cell is painted the second holds the class
\* rule's value and the first its id rule's value.
C8_ClassRuleReachesSiblings ==
  \A n1, n2 \in Tracked :
    \A c \in Classes :
      ( /\ Settled
        /\ n1 # n2
        /\ ParentSet(Cur, obj.domEl[n1]) = ParentSet(Cur, obj.domEl[n2])
        /\ c \in obj.classList[n1] \cap obj.classList[n2]
        /\ obj.extraParams[n1] = <<>> /\ obj.extraParams[n2] = <<>>
        /\ ~Declares(dom.style[obj.domEl[n1]], "material-color")
        /\ ~Declares(dom.style[obj.domEl[n2]], "material-color")
        /\ Declares(StyleOf("." \o c), "material-color")
        /\ obj.domId[n1] # ""
        /\ Declares(StyleOf("#" \o obj.domId[n1]), "material-color")
        /\ ~Declares(StyleOf("#" \o obj.domId[n2]), "material-color") )
      =>
      /\ obj.props[n2]["material-color"] =
           LatestValue(StyleOf("." \o c), "material-color")
      /\ obj.props[n1]["material-color"] =
           LatestValue(StyleOf("#" \o obj.domId[n1]), "material-color")


\* TransitionFinished events dispatched on node n for one property.
Finished(n, key) ==
  {i \in 1..Len(events) : events[i].target = n /\ events[i].key = key}

\* An interpolation the last repaint started: --position goes from (1,2,3)
\* to (4,2,3) under a linear transition of positive duration; nothing else
\* was being interpolated when the repaint began, and the repaint applied
\* no other value to the property.
MoveStarted(c) ==
  /\ c \in SeqRange(lastPaint.started)
  /\ lastPaint.rafBefore = <<>>
  /\ \A d \in SeqRange(lastPaint.started) :
       (d.node = c.node /\ d.key = c.key) => (d.from = c.from /\ d.to = c.to)
  /\ ~escaped
  /\ c.key = "position" /\ c.fun = "linear" /\ c.durationMs > 0
  /\ c.from = Arr(<<Q(1), Q(2), Q(3)>>)
  /\ c.to = Arr(<<Q(4), Q(2), Q(3)>>)

\* C9: a repaint that moves --position from (1,2,3) to (4,2,3) under a
\* linear transition of duration D > 0 interpolates each component (the
\* first is 2.5 at the frame where t = 0.5), leaves exactly (4,2,3) once D
\* has elapsed, and dispatches TransitionFinished exactly once.
C9_TransitionRuns ==
  \A i \in 1..Len(lastPaint.started) :
    LET c == lastPaint.started[i]
        elapsed == now - c.start
    IN MoveStarted(c) =>
         /\ (2 * elapsed = c.durationMs) =>
              obj.props[c.node]["position"] = Arr(<<10, Q(2), Q(3)>>)
         /\ (elapsed >= c.durationMs) =>
              /\ obj.props[c.node]["position"] = c.to
              /\ Cardinality(Finished(c.node, "position")) = 1

\* A paint pass has just ended (a handler run or the full repaint).
PassEnded == lastPaint.kind \in {"specific", "convict", "extra", "full"}

\* Whether applying the declaration to node n fails.
Fails(n, prop) == KindOf(Cur, n, prop) \in {"fnThrows", "setThrows", "readonly"}

\* C10: a property whose application fails is caught and logged, no
\* exception leaves the paint pass, and the other properties of the same
\* rule and of the node's later rules are applied.
C10_FailureContained ==
  /\ PassEnded => ~escaped
  /\ \A n \in 1..MaxNodes :
       ( /\ lastPaint.kind = "specific"
         /\ n \in lastPaint.nodes \cap Tracked
         /\ obj.transition[n] = NoTransition
         /\ raf = <<>> /\ pending = <<>> )
       =>
       /\ Holds(n, LookedUpCascade(n))
       /\ (\E i \in 1..Len(LookedUpCascade(n)) :
             Fails(n, LookedUpCascade(n)[i].prop)) => warned

\* The handler run that just ended handled one record and painted node n,
\* which existed before, with paintSpecificMuse, immediately and without an
\* exception.
PaintedOnce(n) ==
  /\ lastPaint.kind = "specific"
  /\ Len(lastBatch.recs) = 1
  /\ n \in lastPaint.nodes \cap Tracked
  /\ n \in DOMAIN lastPaint.propsBefore
  /\ dom.convict[obj.domEl[n]] = n
  /\ obj.transition[n] = NoTransition
  /\ raf = <<>> /\ pending = <<>> /\ ~escaped

\* Declaration i of the cascade is the only one for its property and its
\* value is a cross-reference to an id the cell does not track.
Unresolved(cascade, i) ==
  /\ RefFails(Cur, cascade[i].value)
  /\ \A j \in 1..Len(cascade) : cascade[j].prop = cascade[i].prop => j = i

\* C11: when a declared value is a cross-reference to an id the cell does
\* not track, the error is logged and the declared property of the painted
\* node keeps the value it had before the paint.
C11_UnresolvedRefKeepsValue ==
  \A n \in 1..MaxNodes :
    PaintedOnce(n) =>
      \A i \in 1..Len(LookedUpCascade(n)) :
        Unresolved(LookedUpCascade(n), i) =>
          /\ errored
          /\ LookedUpCascade(n)[i].prop \in DOMAIN obj.props[n]
          /\ obj.props[n][LookedUpCascade(n)[i].prop] =
               lastPaint.propsBefore[n][LookedUpCascade(n)[i].prop]

\* ---------------------------------------------------------- the Train spec
\* Script operations of one interpolation run.
MaxTrainOps == 3

\* @keyframes spin of the page: two keyframes, or three written out of
\* order; each declares two properties.
SpinStyle(x) ==
  <<Decl("renderOrder", RawNumber(Q(x))),
    Decl("position", RawTuple(<<Q(x), 0, 0>>))>>
KeyFrame(pct, decls) == [key |-> pct, style |-> decls]
TwoFrames ==
  [name \in {"spin"} |-> <<KeyFrame(0, SpinStyle(0)), KeyFrame(100, SpinStyle(2))>>]
ThreeFrames ==
  [name \in {"spin"} |->
     <<KeyFrame(100, SpinStyle(4)), KeyFrame(0, SpinStyle(0)),
       KeyFrame(50, SpinStyle(2))>>]
KeyframeDocs == {EmptyMap, TwoFrames, ThreeFrames}

\* Values, durations and descriptors the page passes.
LerpFrom == {Num(0), Arr(<<0, 0, 0>>), Str("red")}
LerpTo == {Num(Q(2)), Arr(<<Q(4), 0, 0>>)}
LerpKey(v) == IF v.t = "num" THEN "renderOrder" ELSE "position"
Durations == {2}
Counts == {<<>>, <<1>>}

TrainInit ==
  \E doc \in KeyframeDocs :
    LET S == Construct(Constructed(PaintKids,
                                   [e \in Meshes |-> IF e = "m1" THEN "a" ELSE ""],
                                   [e \in Meshes |-> {}],
                                   [e \in Meshes |-> <<>>],
                                   [e \in Meshes |-> FALSE], <<>>))
    IN /\ StartsAs([S EXCEPT !.styleCache.keyframes = doc])
       /\ opsLeft = MaxTrainOps

\* script: animateLerp(from, to, durationMs, onUpdate, onComplete), with
\* onUpdate writing the value to a property of object 1.
CallAnimateLerp(from, to, durationMs) ==
  /\ opsLeft > 0
  /\ Install(animateLerp(Cur, 1, LerpKey(from), from, to, durationMs,
                         "linear", Done("page", "", 0, 0, 0)))
  /\ opsLeft' = opsLeft - 1
  /\ UNCHANGED lastBatch

\* script: KeyFrameAnimationLerp(object, {name, duration, iteration})
CallKeyFrameAnimationLerp(name, duration, count) ==
  /\ opsLeft > 0
  /\ Install(KeyFrameAnimationLerp(
               [Cur EXCEPT !.train.runs =
                  Append(@, NewRun(1, name, duration, count,
                                   name \in DOMAIN styleCache.keyframes))],
               Len(train.runs) + 1))
  /\ opsLeft' = opsLeft - 1
  /\ UNCHANGED lastBatch

\* script: gatherKeyFrame_MAP()
CallGatherKeyFrames ==
  /\ opsLeft > 0
  /\ Install(gatherKeyFrame_MAP(Cur))
  /\ opsLeft' = opsLeft - 1
  /\ UNCHANGED lastBatch

\* script: the text of a <style> element changes its @keyframes; the
\* _styleElemObserver callback runs.
KeyframesEdit(doc) ==
  /\ opsLeft > 0
  /\ doc # styleCache.keyframes
  /\ Install(styleElemObserver(Notified(
               [Cur EXCEPT !.styleCache.keyframes = doc])))
  /\ opsLeft' = opsLeft - 1
  /\ UNCHANGED lastBatch

TrainNext ==
  \/ \E from \in LerpFrom, to \in LerpTo, d \in Durations :
       CallAnimateLerp(from, to, d)
  \/ \E name \in {"spin", "none"}, d \in Durations, count \in Counts :
       CallKeyFrameAnimationLerp(name, d, count)
  \/ CallGatherKeyFrames
  \/ \E doc \in KeyframeDocs : KeyframesEdit(doc)
  \/ \E dt \in 1..2 : Frame(dt)

SpecTrain == TrainInit /\ [][TrainNext]_cellVars


\* ------------------------------------------------ claims about Train.js
\* The step callback of animateLerp call id is registered for a frame.
Ticking(id) ==
  \E k \in 1..Len(raf) : raf[k].type = "step" /\ raf[k].id = id

\* C12: for durationMs > 0, the onUpdate call made at t = 1 passes the final
\* value and is followed at once by the only onComplete call of that
\* animateLerp call; onComplete is called nowhere else, and afterwards the
\* call makes no onUpdate call and has no tick registered.
C12_CompletesOnceAtTheEnd ==
  \A i \in 1..Len(train.calls) :
    LET c == train.calls[i]
    IN /\ (c.kind = "update" /\ c.last) =>
            /\ c.value = c.to
            /\ i < Len(train.calls)
            /\ train.calls[i + 1].kind = "complete"
            /\ train.calls[i + 1].id = c.id
       /\ c.kind = "complete" =>
            /\ i > 1
            /\ train.calls[i - 1].kind = "update"
            /\ train.calls[i - 1].id = c.id
            /\ train.calls[i - 1].last
            /\ c.value = c.to
            /\ \A j \in (i + 1)..Len(train.calls) : train.calls[j].id # c.id
            /\ ~Ticking(c.id)

\* A call of the page that took two ticks has completed.
C12_Witness ==
  \E i \in 1..Len(train.calls), j \in 1..Len(train.calls) :
    /\ train.calls[i].kind = "complete"
    /\ train.calls[i].run = 0
    /\ train.calls[j].id = train.calls[i].id
    /\ train.calls[j].kind = "update"
    /\ ~train.calls[j].last

\* The step callback of a property of keyframe run r is registered.
RunTicking(r) ==
  \E k \in 1..Len(raf) :
    raf[k].type = "step" /\ raf[k].done.kind = "resolve" /\ raf[k].done.run = r

\* The passes of run r that have played all their segments.
PassesPlayed(r) ==
  IF train.runs[r].status = "resolved" THEN train.runs[r].pass
  ELSE IF train.runs[r].pass = 0 THEN 0 ELSE train.runs[r].pass - 1

\* C13: a keyframe sequence called with iteration count N >= 1 never plays
\* more than N passes, and once its promise has resolved it has played all
\* its segments exactly N times and has no tick registered.
C13_PlaysCountPasses ==
  \A r \in 1..Len(train.runs) :
    LET run == train.runs[r]
    IN (run.asked # <<>> /\ run.asked[1] >= 1 /\ run.status # "rejected") =>
         /\ run.pass <= run.asked[1]
         /\ run.status = "resolved" =>
              (PassesPlayed(r) = run.asked[1] /\ ~RunTicking(r))

\* C14: KeyFrameAnimationLerp rejects with the not-found error only when the
\* document has no @keyframes rule of the name at the time of the call, and
\* plays the sequence of the document whenever it has one.
C14_FindsSequenceOfDocument ==
  \A r \in 1..Len(train.runs) :
    train.runs[r].status = "rejected" <=> ~train.runs[r].existed

\* Entry i of the call history belongs to an earlier segment of the same
\* keyframe run than entry j.
EarlierSegment(i, j) ==
  /\ train.calls[i].run = train.calls[j].run
  /\ \/ train.calls[i].pass < train.calls[j].pass
     \/ /\ train.calls[i].pass = train.calls[j].pass
        /\ train.calls[i].seg < train.calls[j].seg

\* The animateLerp call of entry i has completed before entry j.
CompletedBefore(i, j) ==
  \E k \in 1..(j - 1) :
    train.calls[k].kind = "complete" /\ train.calls[k].id = train.calls[i].id

\* C15: within one keyframe run, the interpolations registered at any time
\* belong to one segment and started together, and no onUpdate of a segment
\* occurs before every interpolation of the earlier segments has completed
\* (nor does an earlier segment act after a later one).
C15_SegmentBarrier ==
  /\ \A k \in 1..Len(raf), l \in 1..Len(raf) :
       (/\ raf[k].type = "step" /\ raf[l].type = "step"
        /\ raf[k].done.kind = "resolve" /\ raf[l].done.kind = "resolve"
        /\ raf[k].done.run = raf[l].done.run) =>
         /\ raf[k].done.pass = raf[l].done.pass
         /\ raf[k].done.seg = raf[l].done.seg
         /\ raf[k].start = raf[l].start
         /\ raf[k].id \in train.runs[raf[k].done.run].waiting
  /\ \A j \in 1..Len(train.calls) :
       (train.calls[j].kind = "update" /\ train.calls[j].run > 0) =>
         /\ \A i \in 1..Len(train.calls) :
              EarlierSegment(i, j) => (i < j /\ CompletedBefore(i, j))
         /\ \A k \in 1..Len(raf) :
              (/\ raf[k].type = "step" /\ raf[k].done.kind = "resolve"
               /\ raf[k].done.run = train.calls[j].run) =>
                ~(\/ raf[k].done.pass < train.calls[j].pass
                  \/ /\ raf[k].done.pass = train.calls[j].pass
                     /\ raf[k].done.seg < train.calls[j].seg)

\* Two properties of the second segment of a run have been updated, after
\* both properties of its first segment.
C15_Witness ==
  \E i \in 1..Len(train.calls), j \in 1..Len(train.calls) :
    /\ train.calls[i].kind = "update" /\ train.calls[j].kind = "update"
    /\ train.calls[i].run > 0 /\ train.calls[i].run = train.calls[j].run
    /\ train.calls[i].seg = 2 /\ train.calls[j].seg = 2
    /\ train.calls[i].id # train.calls[j].id
    /\ \E a \in 1..Len(train.calls), b \in 1..Len(train.calls) :
         /\ EarlierSegment(a, i) /\ EarlierSegment(b, i)
         /\ train.calls[a].id # train.calls[b].id


\* ------------------------------- style versions, frame loop and dispose()
\* The page changes its style sheets, calls the cached lookups, registers
\* update functions and disposes the cell, at most MaxStyleOps times; the
\* cell holds at most MaxUpdateFunds update functions.
MaxStyleOps == 3
MaxUpdateFunds == 2

\* The asset @-rules and the @keyframes rules the style sheets may hold.
ShipRule == [name \in {"ship"} |-> "ship.glb"]
StyleDocs ==
  {[keyframes |-> k, assetRules |-> a] :
     k \in {EmptyMap, TwoFrames}, a \in {EmptyMap, ShipRule}}
StyleDoc(S) ==
  [keyframes |-> S.styleCache.keyframes, assetRules |-> S.styleCache.assetRules]
WithStyleDoc(S, doc) ==
  [S EXCEPT !.styleCache.keyframes = doc.keyframes,
            !.styleCache.assetRules = doc.assetRules]

StyleInit ==
  \E doc \in StyleDocs :
    LET S == Construct(WithStyleDoc(
               Constructed(PaintKids,
                           [e \in Meshes |-> IF e = "m1" THEN "a" ELSE ""],
                           [e \in Meshes |-> {"k"}],
                           [e \in Meshes |-> <<>>],
                           [e \in Meshes |-> FALSE], ColorSheet), doc))
    IN /\ StartsAs(S)
       /\ opsLeft = MaxStyleOps

\* script: the text of an observed <style> element changes; the
\* _styleElemObserver callback runs while the observer is connected.
StyleTextChange(doc) ==
  /\ opsLeft > 0
  /\ doc # StyleDoc(Cur)
  /\ Install(IF loop.connected
             THEN styleElemObserver(Notified(WithStyleDoc(Cur, doc)))
             ELSE WithStyleDoc(Cur, doc))
  /\ opsLeft' = opsLeft - 1
  /\ UNCHANGED lastBatch

\* script: a <style> element is added to or removed from document.head or
\* the cell; the record reaches _styleHostObserver or _styleObserver while
\* they are connected.
StyleElementChange(doc) ==
  /\ opsLeft > 0
  /\ doc # StyleDoc(Cur)
  /\ Install(IF loop.connected
             THEN styleTreeChanged(Notified(WithStyleDoc(Cur, doc)))
             ELSE WithStyleDoc(Cur, doc))
  /\ opsLeft' = opsLeft - 1
  /\ UNCHANGED lastBatch

\* script: getAsset(name, path)
CallGetAsset(name, path) ==
  /\ opsLeft > 0
  /\ Install(getAsset(Cur, name, path))
  /\ opsLeft' = opsLeft - 1
  /\ UNCHANGED lastBatch

\* script: cell.addUpdateFunction(fn)
AddUpdateFunction(fn) ==
  /\ opsLeft > 0
  /\ Len(loop.updateFunds) < MaxUpdateFunds
  /\ Install([Cur EXCEPT !.loop.updateFunds = Append(@, fn)])
  /\ opsLeft' = opsLeft - 1
  /\ UNCHANGED lastBatch

\* script: cell.dispose()
Dispose ==
  /\ opsLeft > 0
  /\ Install(dispose(Cur))
  /\ opsLeft' = opsLeft - 1
  /\ UNCHANGED lastBatch

StyleNext ==
  \/ \E doc \in StyleDocs : StyleTextChange(doc)
  \/ \E doc \in StyleDocs : StyleElementChange(doc)
  \/ CallGatherKeyFrames
  \/ CallGetAsset("ship", "")
  \/ \E fn \in {"work", "dispose"} : AddUpdateFunction(fn)
  \/ Dispose
  \/ \E dt \in 1..2 : Frame(dt)

SpecStyle == StyleInit /\ [][StyleNext]_cellVars


C17_NotificationRaisesVersion ==
  [][/\ styleCache.version' >= styleCache.version
     /\ styleCache.notified' > styleCache.notified =>
          styleCache.version' > styleCache.version]_cellVars

\* The full repaint callbacks registered for the next frame.
RepaintsPending == {k \in 1..Len(raf) : raf[k].type = "repaint"}

\* C18: at most one full repaint callback is registered at any time, and
\* _pendingStyleRepaint is true exactly while one is.
C18_OneRepaintPending ==
  /\ Cardinality(RepaintsPending) <= 1
  /\ pendingStyleRepaint <=> RepaintsPending # {}

\* Three notifications and one frame: a notification was coalesced, the
\* repaint ran, and a later notification has a repaint pending again.
C18_Witness ==
  /\ pendingStyleRepaint
  /\ lastPaint.kind = "full"
  /\ styleCache.notified >= 3
  /\ now = 1

\* C19: while _running is false the frame loop has called no update
\* function, rendered no frame and registered no frame callback.
C19_LoopStopsWhenDisposed ==
  loop.lateWork \cap {"update", "schedule", "render"} = {}

\* C20: while _running is false no full repaint has scanned the asset rules
\* or painted a node, no full repaint is left registered, and no mutation
\* record is left to be handled.
C20_DisposeClearsRepaint ==
  /\ loop.lateWork \cap {"rescan", "paint"} = {}
  /\ ~loop.running /\ ~loop.connected =>
       (RepaintsPending = {} /\ ~pendingStyleRepaint /\ pending = <<>>)


\* -------------------------------------------------------- the pointer spec
\* Two meshes with on* attributes and the ids "a" and "b"; the pointer
\* moves over them and off them, the mouse buttons are used, and a script
\* removes a mesh, at most MaxPointerOps times.
MaxPointerOps == 4

PointerSheet ==
  << Rule({"#a"}, <<Decl("renderOrder", RawNumber(Q(1)))>>),
     Rule({"#b"}, <<Decl("renderOrder", RawNumber(Q(1)))>>),
     Rule({"#a:hover", "#b:hover"}, <<Decl("renderOrder", RawNumber(Q(2)))>>),
     Rule({"#a:focus", "#b:focus"},
          <<Decl("material-color", RawTuple(BLUE))>>),
     Rule({"#a:active", "#b:active"},
          <<Decl("position", RawTuple(<<Q(1), 0, 0>>))>>) >>

PointerInit ==
  LET S == Construct(Constructed(PaintKids,
                                 [e \in Meshes |-> IF e = "m1" THEN "a"
                                                   ELSE IF e = "m2" THEN "b"
                                                   ELSE ""],
                                 [e \in Meshes |-> {}],
                                 [e \in Meshes |-> <<>>],
                                 [e \in Meshes |-> TRUE], PointerSheet))
  IN /\ StartsAs(S)
     /\ opsLeft = MaxPointerOps

\* The browser delivers click, mousedown, mouseup, dblclick or contextmenu
\* to the cell element.
MouseEvent(type) ==
  /\ opsLeft > 0
  /\ pending = <<>>
  /\ loop.connected
  /\ Install(NotePaint(
       CASE type = "click" -> onCellClick(Forget(Cur))
         [] type = "mousedown" -> onCellMouseDown(Forget(Cur))
         [] type = "mouseup" -> onCellMouseUp(Forget(Cur))
         [] type = "dblclick" -> onCellDoubleClick(Forget(Cur))
         [] OTHER -> onCellContextMenu(Forget(Cur)),
       type, lastCast, raf))
  /\ opsLeft' = opsLeft - 1
  /\ lastBatch' = NoBatch

PointerNext ==
  \/ \E hit \in {{}} \cup {{n} : n \in 1..MaxNodes} : PointerMove(hit)
  \/ \E type \in {"click", "mousedown", "mouseup", "dblclick", "contextmenu"} :
       MouseEvent(type)
  \/ \E e \in Meshes : ScriptRemove(e)
  \/ Deliver

SpecPointer == PointerInit /\ [][PointerNext]_cellVars


\* ------------------------------------------ claims about the pointer events
\* The tracked nodes that carry a pseudo-class flag.
Flagged(flag) ==
  {n \in DOMAIN obj.extraParams : flag \in SeqRange(obj.extraParams[n])}

\* C21: after a handled pointer move at most one node carries ':hover', and
\* a node carries it if and only if it is cell._last_cast_caught (nothing is
\* _last_cast_caught when nothing was hit).
C21_HoverFollowsLastCast ==
  (lastPaint.kind = "extra" /\ ~escaped) =>
    /\ Cardinality(Flagged(":hover")) <= 1
    /\ Flagged(":hover") = lastCast

\* The pointer has moved from one node to another: both were painted, the
\* second is the hit.
C21_Witness ==
  /\ lastPaint.kind = "extra"
  /\ Cardinality(lastPaint.nodes) = 2
  /\ lastCast # {}
  /\ lastCast \subseteq Tracked

\* C22: after a click on the hit node has been handled, no other node of
\* the cell carries ':focus'.
C22_FocusOnClickedOnly ==
  (lastPaint.kind = "click" /\ ~escaped) =>
    (Flagged(":focus") \cap Tracked) \subseteq lastCast

\* C23: after a mouse-up has been handled, no node of the cell carries
\* ':active'.
C23_NoActiveAfterMouseUp ==
  (lastPaint.kind = "mouseup" /\ ~escaped) =>
    Flagged(":active") \cap Tracked = {}

\* C24: after paintSpecificMuse(node) has run to its end, the node is on
\* render layer 3 if and only if its element carries an on* attribute,
\* whether or not a rule matched the node.
C24_PickableIffHandler ==
  (lastPaint.kind = "specific" /\ ~escaped) =>
    \A n \in lastPaint.nodes \cap DOMAIN obj.domEl :
      obj.layer3[n] <=> dom.handler[obj.domEl[n]]


\* ---------------------------------------------------------- the asset spec
\* The page calls getAsset and the loads settle; the style sheet may declare
\* the asset "ship".  At most MaxAssetOps calls.
MaxAssetOps == 3

AssetInit ==
  \E rules \in {EmptyMap, ShipRule} :
    LET S == Construct(WithStyleDoc(
               Constructed(PaintKids,
                           [e \in Meshes |-> IF e = "m1" THEN "a" ELSE ""],
                           [e \in Meshes |-> {}],
                           [e \in Meshes |-> <<>>],
                           [e \in Meshes |-> FALSE], <<>>),
               [keyframes |-> EmptyMap, assetRules |-> rules]))
    IN /\ StartsAs(S)
       /\ opsLeft = MaxAssetOps

\* History: the load stored under key has settled.
NoteSettle(S, key, ok, entry) ==
  [S EXCEPT !.styleCache.lastSettle = <<[name |-> key, ok |-> ok,
                                         load |-> entry.load]>>,
            !.styleCache.lastGet = NoGet]

\* The loader calls back: the promise stored under key resolves or rejects.
LoadSettles(key, ok) ==
  /\ key \in DOMAIN styleCache.assetMap
  /\ styleCache.assetMap[key].kind = "pending"
  /\ Install(NoteSettle(SettleLoad(Forget(Cur), key, ok), key, ok,
                        styleCache.assetMap[key]))
  /\ UNCHANGED <<opsLeft, lastBatch>>

AssetNext ==
  \/ \E name \in {"cube", "ship"}, path \in {"", "ship.glb"} :
       CallGetAsset(name, path)
  \/ \E key \in {"cube", "ship"}, ok \in BOOLEAN : LoadSettles(key, ok)

SpecAsset == AssetInit /\ [][AssetNext]_cellVars


\* --------------------------------------------------- claims about assets
\* C25: getAsset returns the built-in geometry for cube, sphere, plane and
\* torus in every state of the asset cache.
C25_BuiltinsAlwaysServed ==
  styleCache.lastGet.name \in Builtins =>
    styleCache.lastGet.result = <<AssetBuiltin(styleCache.lastGet.name)>>

\* C26: getAsset on a name whose load is pending returns that promise and
\* starts no load; a load that resolves leaves its value under the name; a
\* load that rejects is logged and leaves no entry; getAsset with a path on
\* a name without entry returns the promise of a new load.
C26_PendingLoadsAndFailures ==
  /\ \A i \in 1..Len(styleCache.lastGet.before) :
       styleCache.lastGet.before[i].kind = "pending" =>
         styleCache.lastGet.result = styleCache.lastGet.before
  /\ (/\ styleCache.lastGet.name # ""
      /\ styleCache.lastGet.before = <<>>
      /\ styleCache.lastGet.path # "") =>
       /\ styleCache.lastGet.loadsAfter > styleCache.lastGet.loadsBefore
       /\ styleCache.lastGet.result =
            <<AssetPending(styleCache.lastGet.path,
                           styleCache.lastGet.loadsAfter)>>
  /\ \A i \in 1..Len(styleCache.lastSettle) :
       LET st == styleCache.lastSettle[i]
       IN IF st.ok
          THEN /\ st.name \in DOMAIN styleCache.assetMap
               /\ styleCache.assetMap[st.name].kind = "loaded"
               /\ styleCache.assetMap[st.name].load = st.load
          ELSE /\ st.name \notin DOMAIN styleCache.assetMap
               /\ errored

\* A load failed, and a later getAsset(name, path) has started a new one.
C26_Witness ==
  /\ styleCache.lastGet.failedBefore
  /\ styleCache.lastGet.loadsAfter = styleCache.lastGet.loadsBefore + 1
  /\ Len(styleCache.lastGet.result) = 1
  /\ styleCache.lastGet.result[1].kind = "pending"


\* -------------------------------------------------------- the repaint spec
\* A mesh whose id is set to "a" by a script, style sheets for "#a" with a
\* callable target, a text value and a --transition declaration; scripts
\* call paintSpecificMuse, set object.transition and change the id, at most
\* MaxRepaintOps times.
MaxRepaintOps == 3

StepSheet ==
  << Rule({"#a"}, <<Decl("renderOrder", RawNumber(Q(1))),
                    Decl("lookAt", RawTuple(<<0, Q(1), 0>>)),
                    Decl("translateX", RawTuple(<<Q(1)>>))>>) >>
LabelSheet ==
  << Rule({"#a"}, <<Decl("material-name", RawText("steel", TRUE)),
                    Decl("renderOrder", RawNumber(Q(2)))>>) >>
TransitionSheet ==
  << Rule({"#a"}, <<Decl("transition", RawDuration(2, "linear")),
                    Decl("position", RawTuple(<<Q(4), Q(2), Q(3)>>))>>) >>
RepaintSheets == {CellSheet, StepSheet, LabelSheet, TransitionSheet}

RepaintInit ==
  \E sh \in RepaintSheets :
    LET S == Construct(Constructed(PaintKids,
                                   [e \in Meshes |-> ""],
                                   [e \in Meshes |-> {}],
                                   [e \in Meshes |-> <<>>],
                                   [e \in Meshes |-> FALSE], sh))
    IN /\ ~S.exc
       /\ StartsAs(S)
       /\ opsLeft = MaxRepaintOps

\* The node was painted by paintSpecificMuse in the last step, the pass ran
\* to its end, and the node has no transition and no interpolation going.
PaintedJustNow(n) ==
  /\ lastPaint.kind \in {"specific", "again"}
  /\ n \in lastPaint.nodes
  /\ ~escaped
  /\ obj.transition[n] = NoTransition
  /\ raf = <<>>
  /\ pending = <<>>

\* script: paintSpecificMuse(convict)
CallPaintSpecificMuse(n) ==
  /\ opsLeft > 0
  /\ pending = <<>>
  /\ n \in Tracked
  /\ Install(EndCallback(NotePaint(
               paintSpecificMuse(Forget(Cur), n),
               IF PaintedJustNow(n) THEN "again" ELSE "specific", {n}, raf)))
  /\ opsLeft' = opsLeft - 1
  /\ lastBatch' = NoBatch

RepaintNext ==
  \/ \E n \in 1..MaxNodes : CallPaintSpecificMuse(n)
  \/ \E e \in {"m1"}, i \in {"", "a"} : ScriptSetId(e, i)
  \/ \E n \in 1..MaxNodes, tr \in Transitions : SetTransition(n, tr)
  \/ Deliver
  \/ \E dt \in 1..2 : Frame(dt)

SpecRepaint == RepaintInit /\ [][RepaintNext]_cellVars


\* ----------------------------------------- claims about repeated painting
\* C27: a second paintSpecificMuse on a node, right after a first one and
\* with no transition, leaves every property of the node as the first call
\* left it.
C27_RepaintIsIdempotent ==
  (lastPaint.kind = "again" /\ ~escaped) =>
    \A n \in lastPaint.nodes : obj.props[n] = lastPaint.propsBefore[n]

\* The declarations a paint pass of node n applies for its id.
IdStyle(n) ==
  IF obj.domId[n] = "" THEN <<>> ELSE StyleOf("#" \o obj.domId[n])

\* The last pass painted one node that had a transition object throughout.
PaintedInTransition(n) ==
  /\ lastPaint.kind \in {"specific", "again"}
  /\ n \in lastPaint.nodes
  /\ n \in Tracked
  /\ obj.transition[n] # NoTransition
  /\ ~obj.transition[n][1].prim
  /\ \A i \in 1..Len(IdStyle(n)) : IdStyle(n)[i].prop # "transition"

\* C28: when a node with a transition is painted, a declared text value is
\* assigned in the same pass.
C28_TextValueAssignedAtOnce ==
  \A n \in DOMAIN obj.props :
    PaintedInTransition(n) =>
      \A i \in 1..Len(IdStyle(n)) :
        IdStyle(n)[i].value.form \in {"text", "quoted"} =>
          obj.props[n][IdStyle(n)[i].prop] = Str(IdStyle(n)[i].value.text)

\* C29: when the rule painted on a node without transition declares
\* `--transition: <duration>ms <easing>`, the pass does not fail and every
\* property the rule declares after it is being interpolated over that
\* duration with that easing.
C29_DeclaredTransitionApplies ==
  \A n \in DOMAIN obj.props :
    (/\ lastPaint.kind = "specific"
     /\ n \in lastPaint.nodes
     /\ n \in Tracked
     /\ lastPaint.rafBefore = <<>>) =>
      \A i \in 1..Len(IdStyle(n)), j \in 1..Len(IdStyle(n)) :
        (IdStyle(n)[i].prop = "transition" /\ i < j) =>
          /\ ~escaped
          /\ \E k \in 1..Len(raf) :
               /\ raf[k].type = "step"
               /\ raf[k].node = n
               /\ raf[k].key = IdStyle(n)[j].prop
               /\ raf[k].durationMs = IdStyle(n)[i].value.parts[1]
               /\ raf[k].fun = IdStyle(n)[i].value.text


\* ------------------------------------- claims about the scene-graph parent
\* The tracked node of the nearest ancestor element of e that has one, as a
\* set; empty when no element between e and the cell is tracked.
RECURSIVE NearestTrackedAncestor(_, _)
NearestTrackedAncestor(S, e) ==
  IF ParentSet(S, e) = {} THEN {}
  ELSE LET p == CHOOSE x \in ParentSet(S, e) : TRUE
       IN IF p \in DOMAIN S.allConvictsByDom THEN {S.allConvictsByDom[p]}
          ELSE NearestTrackedAncestor(S, p)

\* The nodes the initial scan or the last run of the observer created.
NewlyCreated ==
  IF lastBatch = NoBatch
  THEN IF opsLeft = MaxOps THEN DOMAIN obj.domEl ELSE {}
  ELSE DOMAIN obj.domEl \ lastBatch.nodesBefore

\* C30: a tracked node that was just created hangs under the node of its
\* nearest tracked ancestor element, and under the scene root only when it
\* has no tracked ancestor.
C30_AttachedToNearestTrackedAncestor ==
  \A n \in NewlyCreated \cap Tracked :
    (pending = <<>> /\ InCell(Cur, obj.domEl[n])) =>
      LET anc == NearestTrackedAncestor(Cur, obj.domEl[n])
      IN IF anc = {} THEN InScene(Cur, n)
         ELSE ObjParentSet(Cur, n) = anc


\* C31: every tracked node the last run of the observer created has been
\* painted in that run: a new node whose element has the id "a" holds the
\* position the rule of `#a` declares.
C31_CreatedNodesArePainted ==
  \A n \in NewlyCreated \cap Tracked :
    (/\ lastBatch # NoBatch
     /\ pending = <<>>
     /\ ~escaped
     /\ sheet = CellSheet
     /\ obj.domId[n] = "a") =>
      obj.props[n]["position"] = Arr(<<Q(1), Q(2), Q(3)>>)


\* ------------------------------------------------ the interpolation spec
\* Calls of animateLerp by the page in one run.
MaxLerpOps == 2

\* The arguments the page passes: numbers, arrays of three and of two
\* numbers, a string and undefined; positive, zero and negative durations.
AnyFrom == {Num(0), Arr(<<0, 0, 0>>), Str("red"), Undef}
AnyTo == {Num(Q(2)), Arr(<<Q(4), 0, 0>>), Arr(<<Q(4), 0>>)}
AnyDurations == {-2, 0, 2}

LerpInit ==
  /\ StartsAs(Construct(Constructed(PaintKids,
                                    [e \in Meshes |-> IF e = "m1" THEN "a" ELSE ""],
                                    [e \in Meshes |-> {}],
                                    [e \in Meshes |-> <<>>],
                                    [e \in Meshes |-> FALSE], <<>>)))
  /\ opsLeft = MaxLerpOps

\* History: the arguments of the call of animateLerp that led to S, its
\* number, and whether an exception came back to the caller.
NoteLerpArgs(S, from, to, durationMs) ==
  [S EXCEPT !.train.lastCall =
     <<[id |-> S.train.lerps, from |-> from, to |-> to,
        durationMs |-> durationMs, threw |-> S.exc]>>]

\* script: animateLerp(from, to, durationMs, onUpdate, onComplete) inside a
\* try block, with onUpdate writing the value to a property of object 1.
CallAnimateLerpWith(from, to, durationMs) ==
  /\ opsLeft > 0
  /\ Install(EndCallback(NoteLerpArgs(
               animateLerp(Forget(Cur), 1, LerpKey(to), from, to, durationMs,
                           "linear", Done("page", "", 0, 0, 0)),
               from, to, durationMs)))
  /\ opsLeft' = opsLeft - 1
  /\ UNCHANGED lastBatch

LerpNext ==
  \/ \E from \in AnyFrom, to \in AnyTo, d \in AnyDurations :
       CallAnimateLerpWith(from, to, d)
  \/ \E dt \in 1..2 : Frame(dt)

SpecLerp == LerpInit /\ [][LerpNext]_cellVars

\* ------------------------------------- claims about degenerate arguments
\* C32: a call of animateLerp with durationMs <= 0 is complete after the
\* first frame that follows it: its step is then no longer registered.
C32_NonPositiveDurationCompletes ==
  \A k \in 1..Len(raf) :
    (raf[k].type = "step" /\ raf[k].durationMs <= 0) => raf[k].start = now


\* from and to are two numbers or two arrays of one length.
Interpolable(from, to) ==
  \/ from.t = "num" /\ to.t = "num"
  \/ from.t = "arr" /\ to.t = "arr" /\ Len(from.v) = Len(to.v)

\* C33: a call of animateLerp whose from and to are not two numbers or two
\* arrays of one length comes back to its caller with an exception.
C33_UsageErrorSignalled ==
  \A i \in 1..Len(train.lastCall) :
    ~Interpolable(train.lastCall[i].from, train.lastCall[i].to) =>
      train.lastCall[i].threw


\* ------------------------------------------ the spec of transitions in flight
\* Script operations of one run with transitions in flight.
MaxFlightOps == 4

\* Two ids move the object to two places.
FlightSheet ==
  << Rule({"#a"}, <<Decl("position", RawTuple(<<Q(4), 0, 0>>))>>),
     Rule({"#b"}, <<Decl("position", RawTuple(<<Q(8), 0, 0>>))>>) >>
FlightTransitions == {Transition(1, "linear"), Transition(2, "linear")}

\* A cell whose first object was given a transition by the page script.
FlightInit ==
  \E tr \in FlightTransitions :
    LET S == Construct(Constructed(PaintKids,
                                   [e \in Meshes |-> ""],
                                   [e \in Meshes |-> {}],
                                   [e \in Meshes |-> <<>>],
                                   [e \in Meshes |-> FALSE], FlightSheet))
    IN /\ StartsAs([S EXCEPT !.obj.transition[1] = tr])
       /\ opsLeft = MaxFlightOps

FlightNext ==
  \/ \E i \in {"", "a", "b"} : ScriptSetId("m1", i)
  \/ \E tr \in FlightTransitions : SetTransition(1, tr)
  \/ ScriptRemove("m1")
  \/ CallRemoveConvict(1)
  \/ Deliver
  \/ \E dt \in 1..2 : Frame(dt)

SpecFlight == FlightInit /\ [][FlightNext]_cellVars

\* --------------------------------- claims about interpolations in flight
\* C34: an animation frame does not change a property of a node that is no
\* longer tracked.
C34_NoWriteToDestroyedNode ==
  [][now' # now =>
       \A n \in DOMAIN obj.props :
         n \notin Tracked => obj'.props[n] = obj.props[n]]_cellVars

\* An interpolation of property key of node n is registered for a frame.
InFlight(n, key) ==
  \E k \in 1..Len(raf) :
    raf[k].type = "step" /\ raf[k].node = n /\ raf[k].key = key

\* C38: when no interpolation of a property is in flight any more, the
\* property holds the value the rule of the node's current id declares,
\* which is the target of the most recent paint.
C38_LastPaintWins ==
  \A n \in Tracked :
    (/\ pending = <<>>
     /\ ~escaped
     /\ obj.domId[n] # ""
     /\ ~InFlight(n, "position")) =>
      \A i \in 1..Len(IdStyle(n)) :
        IdStyle(n)[i].prop = "position" =>
          obj.props[n]["position"] =
            CSSValueTo3JSValue(Cur, IdStyle(n)[i].value)


\* ------------------------------------------ claims about stale references
\* C35: for every tracked element of the cell, the convict property of the
\* element is the node getConvictByDom returns for it.
C35_BackReferenceIsCurrent ==
  \A e \in DOMAIN allConvictsByDom :
    InCell(Cur, e) =>
      /\ e \in DOMAIN dom.convict
      /\ dom.convict[e] = allConvictsByDom[e]


\* C36: once the observer has handled the pending records, the node in
\* _last_cast_caught, if there is one, is a node the cell tracks.
C36_LastCastIsTracked ==
  pending = <<>> => lastCast \subseteq Tracked


\* -------------------------------------------- the spec of object.animation
\* Script operations of one run with an animated object.
MaxAnimOps == 3

Animations == {Animation("spin", 2, <<>>), Animation("spin", 2, <<1>>)}

\* A cell over `<mesh id="a">` and a second mesh, a sheet with a rule for
\* `#a` and one for `.k`, and @keyframes spin, after the page has called
\* gatherKeyFrame_MAP().
AnimInit ==
  LET S == Construct(Constructed(PaintKids,
                                 [e \in Meshes |-> IF e = "m1" THEN "a" ELSE ""],
                                 [e \in Meshes |-> {}],
                                 [e \in Meshes |-> <<>>],
                                 [e \in Meshes |-> FALSE], CellSheet))
  IN /\ StartsAs(gatherKeyFrame_MAP(
                   [S EXCEPT !.styleCache.keyframes = TwoFrames]))
     /\ opsLeft = MaxAnimOps

\* script: object.animation = {name, duration, iteration: {count}}
SetAnimation(n, a) ==
  /\ opsLeft > 0
  /\ n \in Tracked
  /\ obj.animation[n] = NoAnimation
  /\ Install([Forget(Cur) EXCEPT !.obj.animation[n] = a])
  /\ opsLeft' = opsLeft - 1
  /\ lastBatch' = NoBatch

AnimNext ==
  \/ \E a \in Animations : SetAnimation(1, a)
  \/ \E cs \in SUBSET Classes : ScriptSetClass("m1", cs)
  \/ \E i \in {"", "a"} : ScriptSetId("m1", i)
  \/ Deliver
  \/ \E dt \in 1..2 : Frame(dt)

SpecAnim == AnimInit /\ [][AnimNext]_cellVars

\* ------------------------------------ claims about runs of an animation
\* The runs of a keyframe sequence on node n that have not settled.
ActiveRuns(n) ==
  {r \in 1..Len(train.runs) :
     train.runs[r].node = n /\ train.runs[r].status = "running"}

\* C37: at most one run of a keyframe sequence is active on a node.
C37_OneRunPerNode ==
  \A n \in DOMAIN obj.domEl : Cardinality(ActiveRuns(n)) <= 1


\* ------------------------------------------- the spec of settling sequences
\* Calls of KeyFrameAnimationLerp by the page in one run.
MaxSettleOps == 2

\* @keyframes spin with a single keyframe, and with two keyframes that
\* declare a text property next to a number.
OneFrame ==
  [name \in {"spin"} |-> <<KeyFrame(0, SpinStyle(0))>>]
LabelStyle(x, text) ==
  <<Decl("renderOrder", RawNumber(Q(x))), Decl("material-name", RawText(text, TRUE))>>
TextFrames ==
  [name \in {"spin"} |->
     <<KeyFrame(0, LabelStyle(0, "steel")), KeyFrame(100, LabelStyle(2, "brass"))>>]
SettleDocs == {OneFrame, TwoFrames, TextFrames}

SettleInit ==
  \E doc \in SettleDocs :
    LET S == Construct(Constructed(PaintKids,
                                   [e \in Meshes |-> IF e = "m1" THEN "a" ELSE ""],
                                   [e \in Meshes |-> {}],
                                   [e \in Meshes |-> <<>>],
                                   [e \in Meshes |-> FALSE], <<>>))
    IN /\ StartsAs(gatherKeyFrame_MAP([S EXCEPT !.styleCache.keyframes = doc]))
       /\ opsLeft = MaxSettleOps

SettleNext ==
  \/ \E d \in 1..2, count \in Counts :
       CallKeyFrameAnimationLerp("spin", d, count)
  \/ \E dt \in 1..2 : Frame(dt)

SpecSettle == SettleInit /\ [][SettleNext]_cellVars

\* C39: a call of KeyFrameAnimationLerp that has not settled has a step
\* registered for the next frame, so that the frames to come bring it to its
\* end; a call without one can never settle.
C39_SequenceSettles ==
  \A r \in 1..Len(train.runs) :
    train.runs[r].status = "running" => RunTicking(r)


\* ------------------------------------- claims about removed pseudo-classes
\* The properties paintSpecificMuse gives node n, with its current flags,
\* when it paints it from the properties of a newly created object.
FreshlyPainted(n) ==
  paintSpecificMuse([Cur EXCEPT !.obj.props[n] = NewProps], n).obj.props[n]

\* C40: after every pointer event the properties of each tracked node are
\* those a fresh paintSpecificMuse produces for its current flags.
C40_PropertiesFollowFlags ==
  (/\ lastPaint.kind \in {"extra", "click", "mousedown", "mouseup"}
   /\ pending = <<>>
   /\ ~escaped) =>
    \A n \in Tracked : obj.props[n] = FreshlyPainted(n)

====
